---- MODULE Spec2Model ----
(***************************************************************************)
(* A model of the vectors package: the Vector class of                     *)
(* src/src/vectors/vector.py and the functions of                          *)
(* src/src/vectors/operations.py.                                          *)
(*                                                                         *)
(* Python objects live in a heap: `lists` holds the list objects (the      *)
(* component storage of the vectors and the lists a caller passes in),     *)
(* `vectors` holds the Vector objects, each with its _dim and a reference  *)
(* to its _components list.  `last` records the most recent call, its      *)
(* arguments and its outcome (the value returned or the exception).        *)
(*                                                                         *)
(* Python floats are binary floating-point numbers.  They are modelled as  *)
(* m * 2^e with a significand of Precision bits (53 in CPython) and        *)
(* round-to-nearest-even after every operation; the exponent is not        *)
(* bounded, so there is no overflow to infinity in the model.              *)
(***************************************************************************)
EXTENDS Integers, Sequences, FiniteSets, TLC

\* Significand width of the modelled floats (CPython: 53).
Precision == 4

----------------------------------------------------------------------------
(* Numbers: [m |-> significand, e |-> exponent], value m * 2^e, normalised  *)
(* so that m is odd, or m = 0 and e = 0.                                    *)

RECURSIVE Pow2(_)
Pow2(n) == IF n <= 0 THEN 1 ELSE 2 * Pow2(n - 1)

Abs(n) == IF n < 0 THEN -n ELSE n
Min(a, b) == IF a <= b THEN a ELSE b
Max(a, b) == IF a >= b THEN a ELSE b

RECURSIVE BitLen(_)
BitLen(n) == IF n <= 0 THEN 0 ELSE 1 + BitLen(n \div 2)

RECURSIVE Norm(_, _)
Norm(M, E) ==
    IF M = 0 THEN [m |-> 0, e |-> 0]
    ELSE IF M % 2 = 0 THEN Norm(M \div 2, E + 1)
    ELSE [m |-> M, e |-> E]

\* An integer as an exact number.
Num(n) == Norm(n, 0)

Zero == Num(0)
One == Num(1)

\* The nearest number with a significand of Precision bits, ties to even.
RoundMag(M, E) ==
    LET k == BitLen(M) - Precision
    IN  IF k <= 0 THEN Norm(M, E)
        ELSE LET q == M \div Pow2(k)
                 r == M % Pow2(k)
                 half == Pow2(k - 1)
                 up == r > half \/ (r = half /\ q % 2 = 1)
             IN  Norm(IF up THEN q + 1 ELSE q, E + k)

Negate(a) == [m |-> -a.m, e |-> a.e]

RoundExact(M, E) ==
    IF M < 0 THEN Negate(RoundMag(-M, E)) ELSE RoundMag(M, E)

\* float(x): the float nearest to the number x.
Float(x) == RoundExact(x.m, x.e)

IsFloat(x) == Float(x) = x

\* Beyond this gap of exponents the smaller operand of a sum is below half
\* the spacing of the floats around the larger one.
AbsorbGap == 2 * Precision + 2

\* The exact sum of two numbers, as an unrounded <<M, E>>; with a gap beyond
\* AbsorbGap the smaller operand is replaced by a sticky unit of its sign.
ExactSum(a, b) ==
    IF a.m = 0 THEN <<b.m, b.e>>
    ELSE IF b.m = 0 THEN <<a.m, a.e>>
    ELSE LET hi == IF a.e >= b.e THEN a ELSE b
             lo == IF a.e >= b.e THEN b ELSE a
             gap == hi.e - lo.e
         IN  IF gap > AbsorbGap
             THEN <<hi.m * Pow2(AbsorbGap) + (IF lo.m < 0 THEN -1 ELSE 1),
                    hi.e - AbsorbGap>>
             ELSE <<hi.m * Pow2(gap) + lo.m, lo.e>>

\* x + y, x - y, x * y on floats: the exact result, rounded.
FAdd(a, b) == LET s == ExactSum(a, b) IN RoundExact(s[1], s[2])
FSub(a, b) == FAdd(a, Negate(b))
FMul(a, b) == RoundExact(a.m * b.m, a.e + b.e)

\* x / y on floats, y nonzero: the quotient to 2 * Precision + 2 further bits
\* and a sticky bit for the remainder, rounded.
FDiv(a, b) ==
    LET k == 2 * Precision + 2
        n == Abs(a.m) * Pow2(k)
        q == n \div Abs(b.m)
        sticky == IF n % Abs(b.m) = 0 THEN 0 ELSE 1
        mag == RoundMag(2 * q + sticky, a.e - b.e - k - 1)
    IN  IF (a.m < 0) # (b.m < 0) THEN Negate(mag) ELSE mag

RECURSIVE ISqrt(_)
ISqrt(n) ==
    IF n < 2 THEN n
    ELSE LET r == 2 * ISqrt(n \div 4)
         IN  IF (r + 1) * (r + 1) <= n THEN r + 1 ELSE r

\* x ** 0.5 on a float x >= 0: the square root, rounded.
FSqrt(a) ==
    LET s0 == 2 * (Precision + 2)
        s == IF (a.e - s0) % 2 = 0 THEN s0 ELSE s0 + 1
        n == a.m * Pow2(s)
        r == ISqrt(n)
        sticky == IF r * r = n THEN 0 ELSE 1
    IN  RoundMag(2 * r + sticky, ((a.e - s) \div 2) - 1)

\* eps = 1e-9 as a float: 1e-9 is 1125899 * 2^-50 to 21 bits.
Eps == RoundExact(1125899, -50)

\* Comparisons are exact: the sign of the exact difference.
Sign(a, b) == LET s == ExactSum(a, Negate(b))
              IN  IF s[1] < 0 THEN -1 ELSE IF s[1] = 0 THEN 0 ELSE 1
Lt(a, b) == Sign(a, b) < 0
Le(a, b) == Sign(a, b) <= 0
FAbs(a) == [m |-> Abs(a.m), e |-> a.e]

----------------------------------------------------------------------------
(* Python values and the heap.                                             *)

VARIABLES
    lists,      \* list objects: id -> sequence of numbers
    vectors,    \* Vector objects: id -> [dim |-> _dim, comp |-> id of _components]
    held,       \* the list objects the caller holds, as a sequence of ids
    last        \* the most recent call: what was called, with what, and the outcome

vars == <<lists, vectors, held, last>>

NoneVal == [t |-> "None"]
PyInt(n) == [t |-> "int", n |-> n]
PyFloat(a) == [t |-> "float", v |-> a]
PyBool(b) == [t |-> "bool", b |-> b]
VecRef(id) == [t |-> "Vector", id |-> id]
\* A list (or tuple, or flat array): the id of the list object with its items.
SeqRef(kind, id) == [t |-> kind, id |-> id]

IsNumber(pv) == pv.t \in {"int", "float"}
NumOf(pv) == IF pv.t = "int" THEN Num(pv.n) ELSE pv.v

\* The outcome of a call: the heap after it, the exception raised ("" if
\* none) with its message, and the value returned.
Ok(w, ret) == [w |-> w, exc |-> "", msg |-> "", ret |-> ret]
Raise(w, exc, msg) == [w |-> w, exc |-> exc, msg |-> msg, ret |-> NoneVal]

\* An exception ends the call: the rest F of a body runs on the outcome r of
\* a call only if r is no exception.
Then(r, F(_)) == IF r.exc # "" THEN r ELSE F(r)

\* name = value, then the rest F of a body.
With(value, F(_)) == F(value)

\* The smallest id not in use.
NewId(f) == CHOOSE n \in 1..(Cardinality(DOMAIN f) + 1) :
                n \notin DOMAIN f /\ \A k \in 1..(n - 1) : k \in DOMAIN f

Put(f, id, val) == [k \in DOMAIN f \cup {id} |-> IF k = id THEN val ELSE f[k]]

Dim(w, v) == w.vectors[v].dim
Comp(w, v) == w.lists[w.vectors[v].comp]

\* float(value) of a Python value.
float(w, pv) ==
    IF IsNumber(pv) THEN Ok(w, PyFloat(Float(NumOf(pv))))
    ELSE Raise(w, "TypeError", "float() argument must be a string or a real number")

\* [0.0] * n
Zeros(n) == [i \in 1..n |-> Zero]

\* Python's index of a list of length n: negative indices count from the end;
\* 0 when out of range, else the 1-based position.
ListPos(n, i) ==
    IF 0 <= i /\ i < n THEN i + 1
    ELSE IF i < 0 /\ i + n >= 0 THEN i + n + 1
    ELSE 0

list_getitem(w, id, i) ==
    LET pos == ListPos(Len(w.lists[id]), i)
    IN  IF pos = 0 THEN Raise(w, "IndexError", "list index out of range")
        ELSE Ok(w, PyFloat(w.lists[id][pos]))

list_setitem(w, id, i, a) ==
    LET pos == ListPos(Len(w.lists[id]), i)
    IN  IF pos = 0 THEN Raise(w, "IndexError", "list assignment index out of range")
        ELSE Ok([w EXCEPT !.lists[id][pos] = a], NoneVal)

----------------------------------------------------------------------------
(* class Vector                                                            *)

\* A new Vector object with the given _dim and a fresh _components list.
NewVector(w, dim, items) ==
    LET l == NewId(w.lists)
        v == NewId(w.vectors)
    IN  Ok([lists |-> Put(w.lists, l, items),
            vectors |-> Put(w.vectors, v, [dim |-> dim, comp |-> l])],
           VecRef(v))

\* Vector(*args)
__init__(w, args) ==
    IF Len(args) = 0 THEN NewVector(w, 3, <<Zero, Zero, Zero>>)
    ELSE IF Len(args) = 1 THEN
        LET arg == args[1]
        IN  IF arg.t = "int" THEN NewVector(w, arg.n, Zeros(arg.n))
            ELSE IF arg.t \in {"list", "tuple"} THEN
                LET src == w.lists[arg.id]
                IN  NewVector(w, Len(src), [i \in 1..Len(src) |-> Float(src[i])])
            ELSE IF arg.t = "ndarray" THEN
                LET src == w.lists[arg.id]
                IN  NewVector(w, Len(src), src)
            ELSE Then(float(w, arg), LAMBDA f : NewVector(w, 1, <<f.ret.v>>))
    ELSE IF \E i \in 1..Len(args) : ~IsNumber(args[i])
         THEN Raise(w, "TypeError", "float() argument must be a string or a real number")
         ELSE NewVector(w, Len(args), [i \in 1..Len(args) |-> Float(NumOf(args[i]))])

__len__(w, self) == Ok(w, PyInt(Dim(w, self)))
dimension(w, self) == Ok(w, PyInt(Dim(w, self)))

__getitem__(w, self, index) == list_getitem(w, w.vectors[self].comp, index)

__setitem__(w, self, index, value) ==
    Then(float(w, value),
         LAMBDA f : list_setitem(w, w.vectors[self].comp, index, f.ret.v))

get(w, self, index) ==
    IF 0 <= index /\ index < Dim(w, self)
    THEN list_getitem(w, w.vectors[self].comp, index)
    ELSE Raise(w, "IndexError", "Index out of range for vector")

\* A set that leaves the bounds to the list, as the raw operator does.
set_unchecked(w, self, index, value) == __setitem__(w, self, index, value)

set(w, self, index, value) ==
    IF 0 <= index /\ index < Dim(w, self)
    THEN Then(float(w, value),
              LAMBDA f : list_setitem(w, w.vectors[self].comp, index, f.ret.v))
    ELSE Raise(w, "IndexError", "Index out of range for vector")

AxisGet(w, self, k) ==
    IF Dim(w, self) > k THEN list_getitem(w, w.vectors[self].comp, k)
    ELSE Ok(w, PyFloat(Zero))

\* An axis setter that goes through set, and so raises beyond the dimension.
AxisSet_strict(w, self, k, value) == set(w, self, k, value)

AxisSet(w, self, k, value) ==
    IF Dim(w, self) > k
    THEN Then(float(w, value),
              LAMBDA f : list_setitem(w, w.vectors[self].comp, k, f.ret.v))
    ELSE Ok(w, NoneVal)

x_getter(w, self) == AxisGet(w, self, 0)
y_getter(w, self) == AxisGet(w, self, 1)
z_getter(w, self) == AxisGet(w, self, 2)
x_setter(w, self, value) == AxisSet(w, self, 0, value)
y_setter(w, self, value) == AxisSet(w, self, 1, value)
z_setter(w, self, value) == AxisSet(w, self, 2, value)

\* resize(new_size, fill_value) past its check: growing extends the list
\* object in place, shrinking binds _components to a new list, the slice.
resize_apply(w, self, new_size, fill_value) ==
    LET dim == Dim(w, self)
        l == w.vectors[self].comp
    IN  IF new_size = dim THEN Ok(w, NoneVal)
        ELSE IF new_size > dim
        THEN Ok([lists |-> [w.lists EXCEPT ![l] = @ \o [i \in 1..(new_size - dim) |-> NumOf(fill_value)]],
                 vectors |-> [w.vectors EXCEPT ![self].dim = new_size]],
                NoneVal)
        ELSE LET n == NewId(w.lists)
             IN  Ok([lists |-> Put(w.lists, n, SubSeq(w.lists[l], 1, Min(new_size, Len(w.lists[l])))),
                     vectors |-> [w.vectors EXCEPT ![self] = [dim |-> new_size, comp |-> n]]],
                    NoneVal)

\* A resize that stores the new dimension before it validates it.
resize_stores_first(w, self, new_size, fill_value) ==
    IF new_size < 0
    THEN Raise([w EXCEPT !.vectors[self].dim = new_size],
               "ValueError", "Dimension must be non-negative")
    ELSE resize_apply(w, self, new_size, fill_value)

resize(w, self, new_size, fill_value) ==
    IF new_size < 0 THEN Raise(w, "ValueError", "Dimension must be non-negative")
    ELSE resize_apply(w, self, new_size, fill_value)

\* Arithmetic on the numbers of a component list or an argument: an int
\* operand is converted to float first.
PyAdd(a, b) == FAdd(Float(a), Float(b))
PySub(a, b) == FSub(Float(a), Float(b))
PyMul(a, b) == FMul(Float(a), Float(b))
PyDiv(a, b) == FDiv(Float(a), Float(b))

\* min(a, b) and max(a, b) of Python: the first argument unless the second
\* is strictly smaller (larger).
PyMin(a, b) == IF Lt(b, a) THEN b ELSE a
PyMax(a, b) == IF Lt(a, b) THEN b ELSE a

\* The right-hand side of `result[i] = ...` in the loop of kind `kind`.
Element(w, kind, self, other, i) ==
    Then(list_getitem(w, w.vectors[self].comp, i), LAMBDA a :
        IF kind \in {"add", "sub"}
        THEN Then(list_getitem(w, w.vectors[other].comp, i), LAMBDA b :
                 Ok(w, PyFloat(IF kind = "add" THEN PyAdd(a.ret.v, b.ret.v)
                               ELSE PySub(a.ret.v, b.ret.v))))
        ELSE IF kind = "mul" THEN Ok(w, PyFloat(PyMul(a.ret.v, NumOf(other))))
        ELSE IF kind = "neg" THEN Ok(w, PyFloat(Negate(a.ret.v)))
        ELSE Ok(w, PyFloat(PyMax(other[1], PyMin(other[2], a.ret.v)))))

\* for i in range(self._dim): result[i] = <the expression of kind>, from i on.
RECURSIVE ForRange(_, _, _, _, _, _)
ForRange(w, kind, result, self, other, i) ==
    IF i >= Dim(w, self) THEN Ok(w, VecRef(result))
    ELSE Then(Element(w, kind, self, other, i), LAMBDA val :
         Then(__setitem__(val.w, result, i, val.ret), LAMBDA st :
         ForRange(st.w, kind, result, self, other, i + 1)))

\* A result that takes the component list of self as its own.
Componentwise_sharing(w, kind, self, other) ==
    LET v == NewId(w.vectors)
    IN  Ok([w EXCEPT !.vectors = Put(@, v, w.vectors[self])], VecRef(v))

\* result = Vector(self._dim), then the loop.
Componentwise(w, kind, self, other) ==
    Then(__init__(w, <<PyInt(Dim(w, self))>>),
         LAMBDA r : ForRange(r.w, kind, r.ret.id, self, other, 0))

\* An addition that accumulates into self instead of a new vector.
__add___in_place(w, self, other) ==
    IF Dim(w, self) # Dim(w, other)
    THEN Raise(w, "ValueError", "Dimension mismatch")
    ELSE ForRange(w, "add", self, self, other, 0)

\* An addition that adds only the components both operands have.
__add___truncating(w, self, other) ==
    IF Dim(w, self) <= Dim(w, other) THEN Componentwise(w, "add", self, other)
    ELSE Componentwise(w, "add", other, self)

__add__(w, self, other) ==
    IF Dim(w, self) # Dim(w, other)
    THEN Raise(w, "ValueError", "Dimension mismatch")
    ELSE Componentwise(w, "add", self, other)

\* A subtraction with its operands exchanged.
__sub___reversed(w, self, other) ==
    IF Dim(w, self) # Dim(w, other)
    THEN Raise(w, "ValueError", "Dimension mismatch")
    ELSE Componentwise(w, "sub", other, self)

__sub__(w, self, other) ==
    IF Dim(w, self) # Dim(w, other)
    THEN Raise(w, "ValueError", "Dimension mismatch")
    ELSE Componentwise(w, "sub", self, other)

\* sum(self._components[i] * other._components[i] for i in range(self._dim)),
\* from i on, acc the sum so far.
RECURSIVE DotSum(_, _, _, _, _)
DotSum(w, self, other, i, acc) ==
    IF i >= Dim(w, self) THEN Ok(w, IF i = 0 THEN PyInt(0) ELSE PyFloat(acc))
    ELSE Then(list_getitem(w, w.vectors[self].comp, i), LAMBDA a :
         Then(list_getitem(w, w.vectors[other].comp, i), LAMBDA b :
         DotSum(w, self, other, i + 1, PyAdd(acc, PyMul(a.ret.v, b.ret.v)))))

\* A dot product without the dimension test.
dot_unchecked(w, self, other) == DotSum(w, self, other, 0, Zero)

dot(w, self, other) ==
    IF Dim(w, self) # Dim(w, other)
    THEN Raise(w, "ValueError", "Dimension mismatch in dot product")
    ELSE DotSum(w, self, other, 0, Zero)

__mul__(w, self, other) ==
    IF IsNumber(other) THEN Componentwise(w, "mul", self, other)
    ELSE IF other.t = "Vector" THEN dot(w, self, other.id)
    ELSE Raise(w, "TypeError", "Unsupported type for multiplication")

__rmul__(w, self, other) ==
    IF IsNumber(other) THEN __mul__(w, self, other)
    ELSE Raise(w, "TypeError", "Unsupported type for reverse multiplication")

\* A division that takes the scalar 0 for 1.
__truediv___zero_as_one(w, self, other) ==
    IF other.t = "Vector"
    THEN Raise(w, "TypeError", "Vector division (v1 / v2) is not mathematically defined")
    ELSE IF ~IsNumber(other) THEN Raise(w, "TypeError", "Cannot divide by type")
    ELSE IF NumOf(other) = Zero THEN __mul__(w, self, PyFloat(One))
    ELSE __mul__(w, self, PyFloat(PyDiv(One, NumOf(other))))

__truediv__(w, self, other) ==
    IF other.t = "Vector"
    THEN Raise(w, "TypeError", "Vector division (v1 / v2) is not mathematically defined")
    ELSE IF ~IsNumber(other) THEN Raise(w, "TypeError", "Cannot divide by type")
    ELSE IF NumOf(other) = Zero THEN Raise(w, "ValueError", "Cannot divide by zero")
    ELSE __mul__(w, self, PyFloat(PyDiv(One, NumOf(other))))

__neg__(w, self) == Componentwise(w, "neg", self, NoneVal)

\* sum(x*x for x in self._components): over the list, whatever _dim says.
RECURSIVE SumSquares(_, _, _)
SumSquares(items, i, acc) ==
    IF i > Len(items) THEN acc
    ELSE SumSquares(items, i + 1, PyAdd(acc, PyMul(items[i], items[i])))

magnitude_squared(w, self) ==
    IF Len(Comp(w, self)) = 0 THEN Ok(w, PyInt(0))
    ELSE Ok(w, PyFloat(SumSquares(Comp(w, self), 1, Zero)))

magnitude(w, self) ==
    Ok(w, PyFloat(FSqrt(SumSquares(Comp(w, self), 1, Zero))))

__abs__(w, self) == magnitude(w, self)

\* A normalize without the test of the magnitude.
normalize_unchecked(w, self) ==
    Then(magnitude(w, self), LAMBDA mag : __truediv__(w, self, mag.ret))

normalize(w, self) ==
    Then(magnitude(w, self), LAMBDA mag :
        IF mag.ret.v = Zero THEN Raise(w, "ValueError", "Cannot normalize zero vector")
        ELSE __truediv__(w, self, mag.ret))

\* The first of the outcomes that is an exception, or the last one.
RECURSIVE FirstRaised(_)
FirstRaised(rs) ==
    IF Len(rs) = 1 \/ rs[1].exc # "" THEN rs[1] ELSE FirstRaised(Tail(rs))

\* A cross product whose second component has its two products exchanged.
CrossOf_second_reversed(w, g) ==
    Then(FirstRaised(g), LAMBDA got :
        __init__(w, <<
            PyFloat(PySub(PyMul(g[1].ret.v, g[2].ret.v), PyMul(g[3].ret.v, g[4].ret.v))),
            PyFloat(PySub(PyMul(g[5].ret.v, g[2].ret.v), PyMul(g[3].ret.v, g[6].ret.v))),
            PyFloat(PySub(PyMul(g[5].ret.v, g[4].ret.v), PyMul(g[1].ret.v, g[6].ret.v)))>>))

\* Vector(sy * oz - sz * oy, sz * ox - sx * oz, sx * oy - sy * ox) of the
\* axis reads g = <<sy, oz, sz, oy, sx, ox>>, in the order they are made.
CrossOf(w, g) ==
    Then(FirstRaised(g), LAMBDA got :
        __init__(w, <<
            PyFloat(PySub(PyMul(g[1].ret.v, g[2].ret.v), PyMul(g[3].ret.v, g[4].ret.v))),
            PyFloat(PySub(PyMul(g[3].ret.v, g[6].ret.v), PyMul(g[5].ret.v, g[2].ret.v))),
            PyFloat(PySub(PyMul(g[5].ret.v, g[4].ret.v), PyMul(g[1].ret.v, g[6].ret.v)))>>))

\* A cross product without the dimension test: the axis reads give 0.0
\* beyond the dimension.
cross_unchecked(w, self, other) ==
    CrossOf(w, <<y_getter(w, self), z_getter(w, other),
                 z_getter(w, self), y_getter(w, other),
                 x_getter(w, self), x_getter(w, other)>>)

cross(w, self, other) ==
    IF Dim(w, self) # 3 \/ Dim(w, other) # 3
    THEN Raise(w, "ValueError", "Cross product only defined for 3D vectors")
    ELSE CrossOf(w, <<y_getter(w, self), z_getter(w, other),
                      z_getter(w, self), y_getter(w, other),
                      x_getter(w, self), x_getter(w, other)>>)

__matmul__(w, self, other) == cross(w, self, other)

is_3d(w, self) == Ok(w, PyBool(Dim(w, self) = 3))

distance(w, self, other) ==
    Then(__sub__(w, self, other), LAMBDA d : magnitude(d.w, d.ret.id))

distance_squared(w, self, other) ==
    Then(__sub__(w, self, other), LAMBDA d : magnitude_squared(d.w, d.ret.id))

\* math.acos(c): 0.0 for c = 1.0, otherwise kept as the arc cosine of c.
acos(c) == IF c = One THEN PyFloat(Zero) ELSE [t |-> "acos", v |-> c]

angle_between(w, self, other) ==
    Then(dot(w, self, other), LAMBDA dot_prod :
    With(magnitude(w, self).ret.v, LAMBDA mag1 :
    With(magnitude(w, other).ret.v, LAMBDA mag2 :
        IF mag1 = Zero \/ mag2 = Zero
        THEN Raise(w, "ValueError", "Cannot calculate angle with zero vector")
        ELSE With(PyDiv(NumOf(dot_prod.ret), PyMul(mag1, mag2)), LAMBDA cos_angle :
                 Ok(w, acos(PyMax(Negate(One), PyMin(One, cos_angle))))))))

projection(w, self, other) ==
    With(NumOf(magnitude_squared(w, other).ret), LAMBDA mag2_sq :
        IF mag2_sq = Zero THEN Raise(w, "ValueError", "Cannot project onto zero vector")
        ELSE Then(dot(w, self, other), LAMBDA d :
                 __mul__(w, other, PyFloat(PyDiv(NumOf(d.ret), mag2_sq)))))

reflection(w, self, normal) ==
    Then(dot(w, self, normal), LAMBDA d :
    Then(__mul__(w, normal, PyFloat(PyMul(Num(2), NumOf(d.ret)))), LAMBDA m :
    __sub__(m.w, self, m.ret.id)))

lerp(w, self, other, t) ==
    IF Dim(w, self) # Dim(w, other) THEN Raise(w, "ValueError", "Dimension mismatch in lerp")
    ELSE With(PyMax(Zero, PyMin(One, NumOf(t))), LAMBDA tc :
         Then(__sub__(w, other, self), LAMBDA d :
         Then(__mul__(d.w, d.ret.id, PyFloat(tc)), LAMBDA m :
         __add__(m.w, self, m.ret.id))))

cosine_similarity(w, self, other) == angle_between(w, self, other)

clamp(w, self, min_val, max_val) ==
    IF Lt(NumOf(max_val), NumOf(min_val))
    THEN Raise(w, "ValueError", "min_val must be <= max_val")
    ELSE Componentwise(w, "clamp", self, <<NumOf(min_val), NumOf(max_val)>>)

\* list(self._components): a new list with the components.
to_list(w, self) ==
    LET l == NewId(w.lists)
    IN  Ok([w EXCEPT !.lists = Put(@, l, Comp(w, self))], SeqRef("list", l))

\* tuple(self._components): an immutable copy of the components.
to_tuple(w, self) == Ok(w, [t |-> "tuple", items |-> Comp(w, self)])

\* The property components: return self._components, the list itself.
components(w, self) == Ok(w, SeqRef("list", w.vectors[self].comp))

\* cls(data)
from_list(w, data) == __init__(w, <<data>>)

\* The loop of an equality that takes a difference of exactly eps as equal.
RECURSIVE EqLoop_inclusive(_, _, _, _)
EqLoop_inclusive(w, self, other, i) ==
    IF i >= Dim(w, self) THEN Ok(w, PyBool(TRUE))
    ELSE Then(list_getitem(w, w.vectors[self].comp, i), LAMBDA a :
         Then(list_getitem(w, w.vectors[other].comp, i), LAMBDA b :
             IF Lt(Eps, FAbs(PySub(a.ret.v, b.ret.v))) THEN Ok(w, PyBool(FALSE))
             ELSE EqLoop_inclusive(w, self, other, i + 1)))

\* The loop of __eq__ from i on: False at the first component pair that
\* differs by eps or more.
RECURSIVE EqLoop(_, _, _, _)
EqLoop(w, self, other, i) ==
    IF i >= Dim(w, self) THEN Ok(w, PyBool(TRUE))
    ELSE Then(list_getitem(w, w.vectors[self].comp, i), LAMBDA a :
         Then(list_getitem(w, w.vectors[other].comp, i), LAMBDA b :
             IF Le(Eps, FAbs(PySub(a.ret.v, b.ret.v))) THEN Ok(w, PyBool(FALSE))
             ELSE EqLoop(w, self, other, i + 1)))

__eq__(w, self, other) ==
    IF Dim(w, self) # Dim(w, other) THEN Ok(w, PyBool(FALSE))
    ELSE EqLoop(w, self, other, 0)

__ne__(w, self, other) ==
    Then(__eq__(w, self, other), LAMBDA eq : Ok(w, PyBool(~eq.ret.b)))

----------------------------------------------------------------------------
(* operations.py                                                           *)

add(w, v1, v2) == __add__(w, v1, v2)
subtract(w, v1, v2) == __sub__(w, v1, v2)
multiply(w, v, scalar) == __mul__(w, v, scalar)
divide(w, v, scalar) == __truediv__(w, v, scalar)
dot_product(w, v1, v2) == dot(w, v1, v2)
cross_product(w, v1, v2) == cross(w, v1, v2)
op_magnitude(w, v) == magnitude(w, v)
op_normalize(w, v) == normalize(w, v)

op_distance(w, v1, v2) ==
    Then(__sub__(w, v1, v2), LAMBDA diff : magnitude(diff.w, diff.ret.id))

op_angle_between(w, v1, v2) ==
    Then(dot(w, v1, v2), LAMBDA d :
    With(magnitude(w, v1).ret.v, LAMBDA mag1 :
    With(magnitude(w, v2).ret.v, LAMBDA mag2 :
        IF mag1 = Zero \/ mag2 = Zero
        THEN Raise(w, "ValueError", "Cannot calculate angle with zero vector")
        ELSE With(PyDiv(NumOf(d.ret), PyMul(mag1, mag2)), LAMBDA cos_angle :
                 Ok(w, acos(PyMax(Negate(One), PyMin(One, cos_angle))))))))

op_projection(w, v1, v2) ==
    With(magnitude(w, v2).ret.v, LAMBDA mag2 :
        IF mag2 = Zero THEN Raise(w, "ValueError", "Cannot project onto zero vector")
        ELSE Then(dot(w, v1, v2), LAMBDA d :
                 __mul__(w, v2, PyFloat(PyDiv(NumOf(d.ret), PyMul(mag2, mag2))))))

op_reflection(w, v, normal) ==
    Then(dot(w, v, normal), LAMBDA d :
    Then(__rmul__(w, normal, PyFloat(PyMul(Num(2), NumOf(d.ret)))), LAMBDA m :
    __sub__(m.w, v, m.ret.id)))

\* math.cos and math.sin of an angle given in quarter turns.
cos(angle) == CASE angle.q = 0 -> One [] angle.q = 2 -> Negate(One) [] OTHER -> Zero
sin(angle) == CASE angle.q = 1 -> One [] angle.q = 3 -> Negate(One) [] OTHER -> Zero

rotate(w, v, axis, angle) ==
    IF Dim(w, v) # 3 \/ Dim(w, axis) # 3
    THEN Raise(w, "ValueError", "Rotation only supported for 3D vectors")
    ELSE With(cos(angle), LAMBDA cos_a :
         With(sin(angle), LAMBDA sin_a :
         Then(__mul__(w, v, PyFloat(cos_a)), LAMBDA term1 :
         Then(cross(term1.w, v, axis), LAMBDA c :
         Then(__mul__(c.w, c.ret.id, PyFloat(sin_a)), LAMBDA term2 :
         Then(dot(term2.w, axis, v), LAMBDA d :
         Then(__mul__(term2.w, axis, PyFloat(PyMul(NumOf(d.ret), PySub(One, cos_a)))),
              LAMBDA term3 :
         Then(__add__(term3.w, term1.ret.id, term2.ret.id), LAMBDA s12 :
         __add__(s12.w, s12.ret.id, term3.ret.id)))))))))

\* [v1 + v2 for v1, v2 in zip(vectors1, vectors2)] from pair i on; the
\* result list so far is acc.
RECURSIVE BatchAddLoop(_, _, _, _, _)
BatchAddLoop(w, vectors1, vectors2, i, acc) ==
    IF i > Len(vectors1) THEN Ok(w, [t |-> "vectors", ids |-> acc])
    ELSE Then(__add__(w, vectors1[i], vectors2[i]), LAMBDA r :
         BatchAddLoop(r.w, vectors1, vectors2, i + 1, Append(acc, r.ret.id)))

\* A batch_add that pairs the vectors as far as the shorter list goes, as
\* zip does, without the test of the lengths.
batch_add_zipped(w, vectors1, vectors2) ==
    With(Min(Len(vectors1), Len(vectors2)), LAMBDA n :
        BatchAddLoop(w, SubSeq(vectors1, 1, n), SubSeq(vectors2, 1, n), 1, <<>>))

batch_add(w, vectors1, vectors2) ==
    IF Len(vectors1) # Len(vectors2)
    THEN Raise(w, "ValueError", "Vector lists must have the same length")
    ELSE BatchAddLoop(w, vectors1, vectors2, 1, <<>>)

RECURSIVE BatchDotLoop(_, _, _, _, _)
BatchDotLoop(w, vectors1, vectors2, i, acc) ==
    IF i > Len(vectors1) THEN Ok(w, [t |-> "floats", vals |-> acc])
    ELSE Then(dot(w, vectors1[i], vectors2[i]), LAMBDA r :
         BatchDotLoop(r.w, vectors1, vectors2, i + 1, Append(acc, r.ret)))

batch_dot_product(w, vectors1, vectors2) ==
    IF Len(vectors1) # Len(vectors2)
    THEN Raise(w, "ValueError", "Vector lists must have the same length")
    ELSE BatchDotLoop(w, vectors1, vectors2, 1, <<>>)

\* for v, w in zip(vectors, weights): sum_vec = sum_vec + (v * w), from i on;
\* centroid's loop is the same without the weights.
RECURSIVE SumLoop(_, _, _, _, _, _)
SumLoop(w, vecs, weights, weighted, i, sum_vec) ==
    IF i > Len(vecs) THEN Ok(w, VecRef(sum_vec))
    ELSE Then(IF weighted THEN __mul__(w, vecs[i], weights[i])
              ELSE Ok(w, VecRef(vecs[i])), LAMBDA term :
         Then(__add__(term.w, sum_vec, term.ret.id), LAMBDA r :
         SumLoop(r.w, vecs, weights, weighted, i + 1, r.ret.id)))

centroid(w, vecs) ==
    IF Len(vecs) = 0 THEN Raise(w, "ValueError", "Cannot calculate centroid of empty list")
    ELSE Then(__init__(w, <<PyInt(0), PyInt(0), PyInt(0)>>), LAMBDA z :
         Then(SumLoop(z.w, vecs, <<>>, FALSE, 1, z.ret.id), LAMBDA total :
         __truediv__(total.w, total.ret.id, PyInt(Len(vecs)))))

\* a + b on Python numbers: exact on two ints, else the float sum.
PyNumAdd(a, b) ==
    IF a.t = "int" /\ b.t = "int" THEN PyInt(a.n + b.n)
    ELSE PyFloat(PyAdd(NumOf(a), NumOf(b)))

\* sum(weights)
RECURSIVE SumNumbers(_, _, _)
SumNumbers(nums, i, acc) ==
    IF i > Len(nums) THEN acc ELSE SumNumbers(nums, i + 1, PyNumAdd(acc, nums[i]))

weighted_average(w, vecs, weights) ==
    IF Len(vecs) # Len(weights)
    THEN Raise(w, "ValueError", "Vectors and weights must have the same length")
    ELSE IF Len(vecs) = 0
    THEN Raise(w, "ValueError", "Cannot calculate weighted average of empty list")
    ELSE With(SumNumbers(weights, 1, PyInt(0)), LAMBDA total_weight :
             IF NumOf(total_weight) = Zero
             THEN Raise(w, "ValueError", "Total weight cannot be zero")
             ELSE Then(__init__(w, <<PyInt(0), PyInt(0), PyInt(0)>>), LAMBDA z :
                  Then(SumLoop(z.w, vecs, weights, TRUE, 1, z.ret.id), LAMBDA total :
                  __truediv__(total.w, total.ret.id, total_weight))))

\* len(v): Python rejects a negative __len__.
len(w, v) ==
    IF Dim(w, v) < 0 THEN Raise(w, "ValueError", "__len__() should return >= 0")
    ELSE __len__(w, v)

\* [v1[i] * v2[i] for i in range(len(v1))] (or /), from i on.
RECURSIVE ElementWiseList(_, _, _, _, _, _)
ElementWiseList(w, kind, v1, v2, i, acc) ==
    IF i >= Dim(w, v1) THEN Ok(w, [t |-> "items", items |-> acc])
    ELSE Then(__getitem__(w, v1, i), LAMBDA a :
         Then(__getitem__(w, v2, i), LAMBDA b :
             IF kind = "mul"
             THEN ElementWiseList(w, kind, v1, v2, i + 1, Append(acc, PyMul(a.ret.v, b.ret.v)))
             ELSE IF b.ret.v = Zero THEN Raise(w, "ZeroDivisionError", "float division by zero")
             ELSE ElementWiseList(w, kind, v1, v2, i + 1, Append(acc, PyDiv(a.ret.v, b.ret.v)))))

ElementWise(w, kind, v1, v2) ==
    Then(len(w, v1), LAMBDA n1 :
    Then(len(w, v2), LAMBDA n2 :
        IF n1.ret.n # n2.ret.n
        THEN Raise(w, "ValueError", "Vectors must have the same dimension for element-wise")
        ELSE Then(ElementWiseList(w, kind, v1, v2, 0, <<>>), LAMBDA items :
             With(NewId(w.lists), LAMBDA l :
                 __init__([w EXCEPT !.lists = Put(w.lists, l, items.ret.items)],
                          <<SeqRef("list", l)>>)))))

element_wise_multiply(w, v1, v2) == ElementWise(w, "mul", v1, v2)
element_wise_divide(w, v1, v2) == ElementWise(w, "div", v1, v2)

\* sum(v.components)
RECURSIVE SumItems(_, _, _)
SumItems(items, i, acc) ==
    IF i > Len(items) THEN acc ELSE SumItems(items, i + 1, PyAdd(acc, items[i]))

sum_elements(w, v) ==
    IF Len(Comp(w, v)) = 0 THEN Ok(w, PyInt(0))
    ELSE Ok(w, PyFloat(SumItems(Comp(w, v), 1, Zero)))

\* max(items) and min(items) of a non-empty list: the first of the largest
\* (smallest) items.
RECURSIVE MaxItem(_, _, _)
MaxItem(items, i, best) ==
    IF i > Len(items) THEN best
    ELSE MaxItem(items, i + 1, IF Lt(best, items[i]) THEN items[i] ELSE best)

RECURSIVE MinItem(_, _, _)
MinItem(items, i, best) ==
    IF i > Len(items) THEN best
    ELSE MinItem(items, i + 1, IF Lt(items[i], best) THEN items[i] ELSE best)

max_element(w, v) ==
    Then(len(w, v), LAMBDA n :
        IF n.ret.n = 0 THEN Raise(w, "ValueError", "Cannot find max of empty vector")
        ELSE IF Len(Comp(w, v)) = 0 THEN Raise(w, "ValueError", "max() arg is an empty sequence")
        ELSE Ok(w, PyFloat(MaxItem(Comp(w, v), 2, Comp(w, v)[1]))))

min_element(w, v) ==
    Then(len(w, v), LAMBDA n :
        IF n.ret.n = 0 THEN Raise(w, "ValueError", "Cannot find min of empty vector")
        ELSE IF Len(Comp(w, v)) = 0 THEN Raise(w, "ValueError", "min() arg is an empty sequence")
        ELSE Ok(w, PyFloat(MinItem(Comp(w, v), 2, Comp(w, v)[1]))))

mean_element(w, v) ==
    Then(len(w, v), LAMBDA n :
        IF n.ret.n = 0 THEN Raise(w, "ValueError", "Cannot find mean of empty vector")
        ELSE Ok(w, PyFloat(PyDiv(NumOf(sum_elements(w, v).ret), Num(n.ret.n)))))

----------------------------------------------------------------------------
(* The caller.  Each action is one call; the objects no longer referenced  *)
(* after it are collected and the ids of the others closed up, in order.   *)

\* The largest dimension and index the caller asks for.
MaxDim == 3

\* The caller's variables: those that hold a Vector, those that hold a list.
VectorVars == {"v"}
ListVars == {"lst"}
\* The caller's variables when it calls the operations: two operands and
\* a result.
OperandVars == {"a", "b"}
ResultVars == {"r"}

Rank(S, id) == Cardinality({k \in S : k <= id})

\* The heap with only the Vector objects in keepV and the lists they or the
\* caller (hl) reference, ids closed up in order.
Collect(w, hl, keepV) ==
    LET liveL == {w.vectors[v].comp : v \in keepV} \cup {hl[i] : i \in 1..Len(hl)}
    IN  [lists |-> [n \in 1..Cardinality(liveL) |->
                        w.lists[CHOOSE k \in liveL : Rank(liveL, k) = n]],
         vectors |-> [n \in 1..Cardinality(keepV) |->
                        LET v == CHOOSE k \in keepV : Rank(keepV, k) = n
                        IN  [dim |-> w.vectors[v].dim,
                             comp |-> Rank(liveL, w.vectors[v].comp)]],
         held |-> [i \in 1..Len(hl) |-> Rank(liveL, hl[i])]]

\* The Vector objects alive after a call: those alive before, and the one
\* returned.
Kept(r) ==
    DOMAIN vectors \cup (IF r.ret.t = "Vector" THEN {r.ret.id}
                         ELSE IF r.ret.t = "vectors"
                         THEN {r.ret.ids[i] : i \in 1..Len(r.ret.ids)}
                         ELSE {})

RetOf(r) ==
    IF r.ret.t = "Vector" THEN VecRef(Rank(Kept(r), r.ret.id))
    ELSE IF r.ret.t = "vectors"
    THEN [t |-> "vectors",
          ids |-> [i \in 1..Len(r.ret.ids) |-> Rank(Kept(r), r.ret.ids[i])]]
    ELSE r.ret

\* The step of a call `op` on `self` (0: none) with `args` whose outcome is r.
Call(op, self, args, r) ==
    LET c == Collect(r.w, held, Kept(r))
    IN  /\ lists' = c.lists
        /\ vectors' = c.vectors
        /\ held' = c.held
        /\ last' = [op |-> op, self |-> self, args |-> args,
                    exc |-> r.exc, msg |-> r.msg, ret |-> RetOf(r)]

World == [lists |-> lists, vectors |-> vectors]

\* The inputs the caller draws from.  NotFloat is an integer that is not a
\* float: float(NotFloat) rounds it.
NotFloat == Pow2(Precision) + 1
ListLiterals == {<<>>, <<Zero, Num(NotFloat)>>}
DimArgs == {-1, 0, 2, MaxDim}
IndexArgs == {-(MaxDim + 1), -1, 0, 1, MaxDim}
ValueArgs == {PyInt(NotFloat), NoneVal}
FillArgs == {PyFloat(Zero), PyInt(NotFloat)}
SeqKinds == {"list", "tuple", "ndarray"}
CtorArgs ==
    {<<>>} \cup {<<PyInt(n)>> : n \in DimArgs}
           \cup {<<PyFloat(Zero)>>, <<PyInt(0), PyInt(NotFloat)>>}
           \cup {<<[t |-> k, h |-> h]>> : k \in SeqKinds, h \in 1..Len(held)}

\* lst = [...]
MakeList(items) ==
    /\ Len(held) < Cardinality(ListVars)
    /\ LET l == NewId(lists)
       IN  /\ lists' = Put(lists, l, items)
           /\ held' = Append(held, l)
    /\ last' = [op |-> "list", self |-> 0, args |-> <<>>,
                exc |-> "", msg |-> "", ret |-> [t |-> "list", h |-> Len(held) + 1]]
    /\ UNCHANGED vectors

\* The arguments of a call with each list the caller names (its place h in
\* `held`) replaced by the list object.
Resolve(args) ==
    [i \in 1..Len(args) |->
        IF args[i].t \in SeqKinds THEN SeqRef(args[i].t, held[args[i].h]) ELSE args[i]]

\* v = Vector(*args)
Construct(args, names) ==
    /\ Cardinality(DOMAIN vectors) < Cardinality(names)
    /\ Call("Vector", 0, args, __init__(World, Resolve(args)))

Get(v, i) == Call("get", v, <<PyInt(i)>>, get(World, v, i))
Set(v, i, x) == Call("set", v, <<PyInt(i), x>>, set(World, v, i, x))
GetItem(v, i) == Call("__getitem__", v, <<PyInt(i)>>, __getitem__(World, v, i))
SetItem(v, i, x) == Call("__setitem__", v, <<PyInt(i), x>>, __setitem__(World, v, i, x))
GetAxis(v, k) ==
    Call("axis", v, <<PyInt(k)>>, AxisGet(World, v, k))
SetAxis(v, k, x) ==
    Call("axis=", v, <<PyInt(k), x>>, AxisSet(World, v, k, x))
Resize(v, n, fill) == Call("resize", v, <<PyInt(n), fill>>, resize(World, v, n, fill))
GetDimension(v) == Call("dimension", v, <<>>, dimension(World, v))

Init ==
    /\ lists = <<>>
    /\ vectors = <<>>
    /\ held = <<>>
    /\ last = [op |-> "", self |-> 0, args |-> <<>>, exc |-> "", msg |-> "", ret |-> NoneVal]

Next ==
    \/ \E items \in ListLiterals : MakeList(items)
    \/ \E args \in CtorArgs : Construct(args, VectorVars)
    \/ \E v \in DOMAIN vectors :
        \/ \E i \in IndexArgs : Get(v, i)
        \/ \E i \in IndexArgs, x \in ValueArgs : Set(v, i, x)
        \/ \E i \in IndexArgs : GetItem(v, i)
        \/ \E i \in IndexArgs, x \in ValueArgs : SetItem(v, i, x)
        \/ \E k \in 0..2 : GetAxis(v, k)
        \/ \E k \in 0..2, x \in ValueArgs : SetAxis(v, k, x)
        \/ \E n \in DimArgs, fill \in FillArgs : Resize(v, n, fill)
        \/ GetDimension(v)

Spec == Init /\ [][Next]_vars

----------------------------------------------------------------------------
(* The caller of the arithmetic: it builds operands, calls an operation    *)
(* while it has a variable free for the result, and may change any vector. *)

Big == Norm(1, Precision + 1)
OperandArgs ==
    {<<>>, <<PyInt(0)>>, <<PyInt(-1)>>, <<PyFloat(One)>>, <<PyFloat(Big)>>,
     <<PyInt(1), PyInt(0), PyInt(0)>>, <<PyInt(0), PyInt(1), PyInt(0)>>,
     <<PyInt(1), PyInt(2), PyInt(3)>>}
        \cup {<<[t |-> "list", h |-> h]>> : h \in 1..Len(held)}
ScalarArgs == {PyInt(0), PyInt(2), PyFloat(Norm(1, -1))}
AngleArgs == {[t |-> "float", q |-> q] : q \in 0..1}
VectorLists == {<<>>} \cup {<<a>> : a \in DOMAIN vectors}
                      \cup {<<a, b>> : a, b \in DOMAIN vectors}
WeightLists == {<<>>, <<PyInt(1)>>, <<PyInt(1), PyInt(-1)>>, <<PyInt(1), PyInt(1)>>}

Mutators == {"set", "__setitem__", "axis=", "resize"}

\* r = <a call>: the caller has a variable for the result.  It calls an
\* operation once the last of its operands is built.
Operate(op, self, args, r) ==
    /\ last.op = "Vector"
    /\ Cardinality(DOMAIN vectors) <= Cardinality(OperandVars)
    /\ Cardinality(Kept(r)) <= Cardinality(OperandVars \cup ResultVars)
    /\ Call(op, self, args, r)

Method1(op, a, r) == Operate(op, a, <<>>, r)
Method2(op, a, b, r) == Operate(op, a, <<VecRef(b)>>, r)
MethodS(op, a, x, r) == Operate(op, a, <<x>>, r)
Function1(op, a, r) == Operate(op, 0, <<VecRef(a)>>, r)
Function2(op, a, b, r) == Operate(op, 0, <<VecRef(a), VecRef(b)>>, r)
FunctionS(op, a, x, r) == Operate(op, 0, <<VecRef(a), x>>, r)

VectorMethod(a, b) ==
    \/ Method2("__add__", a, b, __add__(World, a, b))
    \/ Method2("__sub__", a, b, __sub__(World, a, b))
    \/ Method2("__mul__", a, b, __mul__(World, a, VecRef(b)))
    \/ Method2("__truediv__", a, b, __truediv__(World, a, VecRef(b)))
    \/ Method2("__matmul__", a, b, __matmul__(World, a, b))
    \/ Method2("__eq__", a, b, __eq__(World, a, b))
    \/ Method2("__ne__", a, b, __ne__(World, a, b))
    \/ Method2("dot", a, b, dot(World, a, b))
    \/ Method2("cross", a, b, cross(World, a, b))
    \/ Method2("distance", a, b, distance(World, a, b))
    \/ Method2("distance_squared", a, b, distance_squared(World, a, b))
    \/ Method2("angle_between", a, b, angle_between(World, a, b))
    \/ Method2("projection", a, b, projection(World, a, b))
    \/ Method2("reflection", a, b, reflection(World, a, b))
    \/ Method2("cosine_similarity", a, b, cosine_similarity(World, a, b))
    \/ \E t \in ScalarArgs :
          Operate("lerp", a, <<VecRef(b), t>>, lerp(World, a, b, t))

ScalarMethod(a, x) ==
    \/ MethodS("__mul__", a, x, __mul__(World, a, x))
    \/ MethodS("__rmul__", a, x, __rmul__(World, a, x))
    \/ MethodS("__truediv__", a, x, __truediv__(World, a, x))
    \/ \E y \in ScalarArgs :
          Operate("clamp", a, <<x, y>>, clamp(World, a, x, y))

UnaryMethod(a) ==
    \/ Method1("__neg__", a, __neg__(World, a))
    \/ Method1("__abs__", a, __abs__(World, a))
    \/ Method1("magnitude", a, magnitude(World, a))
    \/ Method1("magnitude_squared", a, magnitude_squared(World, a))
    \/ Method1("normalize", a, normalize(World, a))
    \/ Method1("is_3d", a, is_3d(World, a))

LibraryFunction(a, b) ==
    \/ Function2("add", a, b, add(World, a, b))
    \/ Function2("subtract", a, b, subtract(World, a, b))
    \/ Function2("dot_product", a, b, dot_product(World, a, b))
    \/ Function2("cross_product", a, b, cross_product(World, a, b))
    \/ Function2("distance", a, b, op_distance(World, a, b))
    \/ Function2("angle_between", a, b, op_angle_between(World, a, b))
    \/ Function2("projection", a, b, op_projection(World, a, b))
    \/ Function2("reflection", a, b, op_reflection(World, a, b))
    \/ Function2("element_wise_multiply", a, b, element_wise_multiply(World, a, b))
    \/ Function2("element_wise_divide", a, b, element_wise_divide(World, a, b))
    \/ \E q \in AngleArgs :
          Operate("rotate", 0, <<VecRef(a), VecRef(b), q>>, rotate(World, a, b, q))

UnaryFunction(a) ==
    \/ Function1("magnitude", a, op_magnitude(World, a))
    \/ Function1("normalize", a, op_normalize(World, a))
    \/ Function1("sum_elements", a, sum_elements(World, a))
    \/ Function1("max_element", a, max_element(World, a))
    \/ Function1("min_element", a, min_element(World, a))
    \/ Function1("mean_element", a, mean_element(World, a))
    \/ \E x \in ScalarArgs :
          \/ FunctionS("multiply", a, x, multiply(World, a, x))
          \/ FunctionS("divide", a, x, divide(World, a, x))

VecList(ids) == [t |-> "vectors", ids |-> ids]
NumList(nums) == [t |-> "numbers", nums |-> nums]

ListFunction(l1, l2) ==
    \/ Operate("batch_add", 0, <<VecList(l1), VecList(l2)>>, batch_add(World, l1, l2))
    \/ Operate("batch_dot_product", 0, <<VecList(l1), VecList(l2)>>,
               batch_dot_product(World, l1, l2))
    \/ Operate("centroid", 0, <<VecList(l1)>>, centroid(World, l1))
    \/ \E ws \in WeightLists :
          Operate("weighted_average", 0, <<VecList(l1), NumList(ws)>>,
                  weighted_average(World, l1, ws))

\* The changes the caller makes to a vector between the calls.
Mutate(v) ==
    \/ SetItem(v, 0, PyInt(2))
    \/ SetAxis(v, 0, PyInt(2))
    \/ Resize(v, 1, PyFloat(Zero))

NextOps ==
    \/ \E args \in OperandArgs : Construct(args, OperandVars)
    \/ \E a, b \in DOMAIN vectors : VectorMethod(a, b)
    \/ \E a \in DOMAIN vectors, x \in ScalarArgs : ScalarMethod(a, x)
    \/ \E a \in DOMAIN vectors : UnaryMethod(a)
    \/ \E a, b \in DOMAIN vectors : LibraryFunction(a, b)
    \/ \E a \in DOMAIN vectors : UnaryFunction(a)
    \/ \E l1, l2 \in VectorLists : ListFunction(l1, l2)
    \/ \E v \in DOMAIN vectors : Mutate(v)

\* The caller holds a list to build vectors from.
InitOps ==
    /\ lists = <<(<<Zero, Num(NotFloat)>>)>>
    /\ vectors = <<>>
    /\ held = <<1>>
    /\ last = [op |-> "list", self |-> 0, args |-> <<>>,
               exc |-> "", msg |-> "", ret |-> [t |-> "list", h |-> 1]]

SpecOps == InitOps /\ [][NextOps]_vars

----------------------------------------------------------------------------
(* The caller of the comparisons: it builds two vectors whose components   *)
(* lie within eps of each other, or not, and compares them.                *)

BelowEps == Norm(Eps.m * Pow2(Precision - BitLen(Eps.m)) - 1,
                 Eps.e - (Precision - BitLen(Eps.m)))
ComparedArgs ==
    {<<PyInt(0)>>, <<PyInt(-1)>>, <<PyFloat(Zero)>>, <<PyFloat(Eps)>>,
     <<PyFloat(BelowEps)>>, <<PyFloat(Negate(BelowEps))>>,
     <<PyInt(1), PyFloat(Zero)>>, <<PyInt(1), PyFloat(Eps)>>,
     <<PyInt(1), PyFloat(BelowEps)>>}

Compare(a, b) ==
    \/ Method2("__eq__", a, b, __eq__(World, a, b))
    \/ Method2("__ne__", a, b, __ne__(World, a, b))

NextCompare ==
    \/ \E args \in ComparedArgs : Construct(args, OperandVars)
    \/ \E a, b \in DOMAIN vectors : Compare(a, b)

SpecCompare == Init /\ [][NextCompare]_vars

----------------------------------------------------------------------------
(* Properties.  A property of a call is stated of the step that makes it:  *)
(* `last'` is the call, the unprimed variables the heap it was made on.    *)


\* C1: in every state the reported dimension of every vector is
\* non-negative and equals the number of its stored components.
DimensionIsComponentCount ==
    \A v \in DOMAIN vectors :
        /\ vectors[v].dim >= 0
        /\ vectors[v].dim = Len(lists[vectors[v].comp])

NegativeDimensionRequested(c) ==
    \/ c.op = "Vector" /\ Len(c.args) = 1 /\ c.args[1].t = "int" /\ c.args[1].n < 0
    \/ c.op = "resize" /\ c.args[1].n < 0

\* C2: a request for a negative dimension, by Vector(dim) or by
\* resize(newDim), fails with the invalid-dimension error and neither
\* creates nor changes a vector.
NegativeDimensionRejected ==
    [][NegativeDimensionRequested(last')
         => /\ last'.exc = "ValueError"
            /\ last'.msg = "Dimension must be non-negative"
            /\ vectors' = vectors
            /\ lists' = lists]_vars

\* C3: a mutating call that fails leaves the dimension and the components
\* of every vector as they were.
FailedMutationChangesNothing ==
    [][last'.op \in Mutators /\ last'.exc # ""
         => /\ DOMAIN vectors' = DOMAIN vectors
            /\ \A v \in DOMAIN vectors :
                  /\ vectors'[v].dim = vectors[v].dim
                  /\ lists'[vectors'[v].comp] = lists[vectors[v].comp]]_vars

\* C3 witness: an axis setter failed on a vector that has the component.
FailedAxisSetterReached ==
    /\ last.op = "axis=" /\ last.exc = "TypeError"
    /\ vectors[last.self].dim > last.args[1].n

InRange(v, i) == 0 <= i /\ i < vectors[v].dim

\* C6: get(i) and set(i, x) raise IndexError and change nothing when i is
\* outside [0, dimension); inside, get returns component i and set replaces
\* component i alone.
ExplicitAccessorsChecked ==
    [][/\ last'.op = "get" =>
            LET v == last'.self
                i == last'.args[1].n
            IN  /\ vectors' = vectors /\ lists' = lists
                /\ IF InRange(v, i)
                   THEN last'.exc = "" /\ last'.ret = PyFloat(lists[vectors[v].comp][i + 1])
                   ELSE last'.exc = "IndexError"
       /\ last'.op = "set" /\ IsNumber(last'.args[2]) =>
            LET v == last'.self
                i == last'.args[1].n
                l == vectors[v].comp
            IN  /\ vectors' = vectors
                /\ IF InRange(v, i)
                   THEN /\ last'.exc = ""
                        /\ lists' = [lists EXCEPT ![l][i + 1] = Float(NumOf(last'.args[2]))]
                   ELSE last'.exc = "IndexError" /\ lists' = lists]_vars

\* C6 witness: set failed on a vector of dimension 0.
SetOnEmptyVectorReached ==
    /\ last.op = "set" /\ last.exc = "IndexError"
    /\ vectors[last.self].dim = 0

\* What the raw operator would have to do to agree with the accessor.
SameOutcome(r) ==
    LET c == Collect(r.w, held, Kept(r))
    IN  /\ (last'.exc = "") = (r.exc = "")
        /\ last'.ret = RetOf(r)
        /\ vectors' = c.vectors
        /\ lists' = c.lists

\* C7: v[i] and v[i] = x succeed exactly when get(i) and set(i, x) do,
\* with the same result and the same effect, for every integer i.
RawIndexMatchesAccessors ==
    [][/\ last'.op = "__getitem__" =>
            SameOutcome(get(World, last'.self, last'.args[1].n))
       /\ last'.op = "__setitem__" =>
            SameOutcome(set(World, last'.self, last'.args[1].n, last'.args[2]))]_vars

\* C8: x, y, z return component 0, 1, 2 when the dimension reaches it and
\* 0.0 otherwise; assigning to an axis the dimension does not reach does
\* nothing, assigning to one it reaches replaces that component alone.
AxisAccessors ==
    [][/\ last'.op = "axis" =>
            LET v == last'.self
                k == last'.args[1].n
            IN  /\ vectors' = vectors /\ lists' = lists
                /\ last'.exc = ""
                /\ last'.ret = PyFloat(IF vectors[v].dim > k
                                       THEN lists[vectors[v].comp][k + 1] ELSE Zero)
       /\ last'.op = "axis=" /\ IsNumber(last'.args[2]) =>
            LET v == last'.self
                k == last'.args[1].n
                l == vectors[v].comp
            IN  /\ vectors' = vectors
                /\ last'.exc = ""
                /\ lists' = IF k >= vectors[v].dim THEN lists
                            ELSE [lists EXCEPT ![l][k + 1] = Float(NumOf(last'.args[2]))]]_vars

\* C8 witness: an axis beyond the dimension of a non-empty vector was assigned.
AxisBeyondDimensionAssigned ==
    /\ last.op = "axis=" /\ last.exc = "" /\ IsNumber(last.args[2])
    /\ vectors[last.self].dim >= 1
    /\ last.args[1].n >= vectors[last.self].dim

\* The dimension and the components of vector v are the same after the
\* step as before it.
SameVector(v) ==
    /\ v \in DOMAIN vectors'
    /\ vectors'[v].dim = vectors[v].dim
    /\ lists'[vectors'[v].comp] = lists[vectors[v].comp]

\* C4: a call of an arithmetic, geometric or library operation leaves the
\* dimension and the components of every vector as they were, whether it
\* returns or raises; a call of set, the index assignment, an axis setter
\* or resize leaves every vector but its receiver as it was.
OnlyMutatorsChangeTheirReceiver ==
    [][/\ last'.op \notin Mutators \cup {"Vector"} =>
              \A v \in DOMAIN vectors : SameVector(v)
       /\ last'.op \in Mutators =>
              \A v \in DOMAIN vectors \ {last'.self} : SameVector(v)]_vars

\* C4 witness: rotate has returned a vector for two different non-zero
\* operands the caller still holds.
RotateReturned ==
    /\ last.op = "rotate" /\ last.exc = ""
    /\ last.args[1].id # last.args[2].id
    /\ lists[vectors[last.args[1].id].comp] # lists[vectors[last.args[2].id].comp]
    /\ \A k \in 1..2 : \E i \in 1..3 : lists[vectors[last.args[k].id].comp][i] # Zero
    /\ last.ret.id \notin {last.args[1].id, last.args[2].id}

\* C5: no two vectors reference the same component list, and a call of
\* set, the index assignment, an axis setter or resize on one vector leaves
\* the dimension and the components of every other vector as they were.
NoSharedStorage ==
    /\ [](\A a, b \in DOMAIN vectors : a # b => vectors[a].comp # vectors[b].comp)
    /\ [](\A a \in DOMAIN vectors : \A i \in 1..Len(held) : vectors[a].comp # held[i])
    /\ [][last'.op \in Mutators =>
              \A v \in DOMAIN vectors \ {last'.self} : SameVector(v)]_vars

\* C5 witness: the result of an operation has been changed by an index
\* assignment and now differs from the operand of the same dimension, and
\* another vector was built from the caller's list.
ResultChangedAlone ==
    /\ Cardinality(DOMAIN vectors) = Cardinality(OperandVars \cup ResultVars)
    /\ last.op = "__setitem__" /\ last.exc = "" /\ last.self = 3
    /\ vectors[1].dim = vectors[3].dim
    /\ lists[vectors[1].comp] # lists[vectors[3].comp]
    /\ lists[vectors[2].comp] = [i \in 1..Len(lists[held[1]]) |-> Float(lists[held[1]][i])]

\* The two operands of a call of add or subtract, as method or as function.
AddSubOps == {"__add__", "__sub__", "add", "subtract"}
LeftOperand(c) == IF c.self # 0 THEN c.self ELSE c.args[1].id
RightOperand(c) == IF c.self # 0 THEN c.args[1].id ELSE c.args[2].id

\* C9: add and subtract of operands of different dimensions raise the
\* dimension mismatch error; for operands of one dimension d they return a
\* new vector of dimension d whose component i is the float sum
\* (difference) of the operands' components i.
AddSubtractComponentwise ==
    [][last'.op \in AddSubOps =>
          LET a == LeftOperand(last')
              b == RightOperand(last')
              d == vectors[a].dim
              A == lists[vectors[a].comp]
              B == lists[vectors[b].comp]
          IN  IF d # vectors[b].dim
              THEN /\ last'.exc = "ValueError"
                   /\ last'.msg = "Dimension mismatch"
                   /\ DOMAIN vectors' = DOMAIN vectors
              ELSE /\ last'.exc = ""
                   /\ last'.ret.t = "Vector"
                   /\ last'.ret.id \notin DOMAIN vectors
                   /\ vectors'[last'.ret.id].dim = d
                   /\ lists'[vectors'[last'.ret.id].comp] =
                          [i \in 1..d |->
                              IF last'.op \in {"__add__", "add"}
                              THEN PyAdd(A[i], B[i]) ELSE PySub(A[i], B[i])]]_vars

\* C9 witness: a subtraction of two different operands of two or more
\* components has returned.
SubtractionReturned ==
    /\ last.op = "__sub__" /\ last.exc = ""
    /\ vectors[last.ret.id].dim >= 2
    /\ lists[vectors[last.self].comp] # lists[vectors[last.args[1].id].comp]

\* (v + w) - w == v, for the sum v + w that the last call returned.
SubtractRestores ==
    Then(__sub__(World, last.ret.id, last.args[1].id),
         LAMBDA d : __eq__(d.w, d.ret.id, last.self)).ret = PyBool(TRUE)

\* The float sum of a and b is their exact sum.
SumIsExact(a, b) ==
    LET s == ExactSum(Float(a), Float(b))
    IN  /\ Norm(Abs(s[1]), s[2]) = RoundMag(Abs(s[1]), s[2])
        /\ (a.m # 0 /\ b.m # 0 => Abs(a.e - b.e) <= AbsorbGap)

AdditionIsExact ==
    LET A == lists[vectors[last.self].comp]
        B == lists[vectors[last.args[1].id].comp]
    IN  \A i \in 1..vectors[last.self].dim : SumIsExact(A[i], B[i])

Receiver(c) == IF c.self # 0 THEN c.self ELSE c.args[1].id
Operand(c) == IF c.self # 0 THEN c.args[1] ELSE c.args[2]

\* The call returned a vector the caller did not hold, of dimension d and
\* with the components items.
ReturnedNew(d, items) ==
    /\ last'.exc = ""
    /\ last'.ret.t = "Vector"
    /\ last'.ret.id \notin DOMAIN vectors
    /\ vectors'[last'.ret.id].dim = d
    /\ lists'[vectors'[last'.ret.id].comp] = items

\* The call raised exc and left the heap as it was.
RaisedOnly(exc) ==
    /\ last'.exc = exc
    /\ vectors' = vectors
    /\ lists' = lists

\* C11: v / x and divide(v, x) raise TypeError when x is a vector (a zero
\* vector too) and ValueError "Cannot divide by zero" when x is the number
\* 0, and leave every vector as it was; for a number s # 0 they return a new
\* vector of the dimension of v whose component i is v_i * (1.0 / s).
DivisionByScalar ==
    [][last'.op \in {"__truediv__", "divide"} =>
          LET v == Receiver(last')
              x == Operand(last')
              d == vectors[v].dim
              A == lists[vectors[v].comp]
          IN  IF x.t = "Vector" THEN RaisedOnly("TypeError")
              ELSE IF NumOf(x) = Zero
              THEN RaisedOnly("ValueError") /\ last'.msg = "Cannot divide by zero"
              ELSE ReturnedNew(d, [i \in 1..d |-> PyMul(A[i], PyDiv(One, NumOf(x)))])]_vars

\* C11 witness: a non-zero vector of two or more components has been
\* divided by a number other than 0 and 1.
DividedByScalar ==
    /\ last.op = "__truediv__" /\ last.exc = ""
    /\ IsNumber(last.args[1]) /\ NumOf(last.args[1]) # One
    /\ vectors[last.self].dim >= 2
    /\ \E i \in 1..vectors[last.self].dim : lists[vectors[last.self].comp][i] # Zero

\* x_1 + ... + x_n on floats from the left, starting from 0.
RECURSIVE FloatSum(_, _)
FloatSum(xs, n) == IF n <= 0 THEN Zero ELSE PyAdd(FloatSum(xs, n - 1), xs[n])

OnlyIn3D ==
    [][last'.op \in {"cross", "__matmul__", "cross_product", "rotate"} =>
          IF vectors[Receiver(last')].dim = 3 /\ vectors[Operand(last').id].dim = 3
          THEN /\ last'.exc = ""
               /\ last'.ret.t = "Vector"
               /\ last'.ret.id \notin DOMAIN vectors
               /\ vectors'[last'.ret.id].dim = 3
          ELSE /\ RaisedOnly("ValueError")
               /\ last'.msg = IF last'.op = "rotate"
                              THEN "Rotation only supported for 3D vectors"
                              ELSE "Cross product only defined for 3D vectors"]_vars

\* C13 witness: rotate has raised for a vector of dimension 3 and an axis
\* of another dimension.
RotateAboutShortAxisRaised ==
    /\ last.op = "rotate" /\ last.exc = "ValueError"
    /\ vectors[last.args[1].id].dim = 3
    /\ vectors[last.args[2].id].dim \notin {3}

\* (a_y*b_z - a_z*b_y, a_z*b_x - a_x*b_z, a_x*b_y - a_y*b_x) on floats.
Determinant(A, B) ==
    <<PySub(PyMul(A[2], B[3]), PyMul(A[3], B[2])),
      PySub(PyMul(A[3], B[1]), PyMul(A[1], B[3])),
      PySub(PyMul(A[1], B[2]), PyMul(A[2], B[1]))>>

\* The components of the vector an outcome r returns.
Returned(r) == r.w.lists[r.w.vectors[r.ret.id].comp]

\* C14: for a and b of dimension 3, a.cross(b), a @ b and cross_product(a, b)
\* return the vector of the determinant expansion; it is the zero vector
\* when b has the components of a, and the negation of what b.cross(a)
\* returns.
CrossIsDeterminant ==
    [][(/\ last'.op \in {"cross", "__matmul__", "cross_product"}
        /\ vectors[Receiver(last')].dim = 3
        /\ vectors[Operand(last').id].dim = 3) =>
            LET a == Receiver(last')
                b == Operand(last').id
                A == lists[vectors[a].comp]
                B == lists[vectors[b].comp]
                C == lists'[vectors'[last'.ret.id].comp]
            IN  /\ last'.exc = ""
                /\ C = Determinant(A, B)
                /\ (SubSeq(A, 1, 3) = SubSeq(B, 1, 3) => C = <<Zero, Zero, Zero>>)
                /\ With(cross(World, b, a), LAMBDA r :
                       /\ r.exc = ""
                       /\ C = [i \in 1..3 |-> Negate(Returned(r)[i])])]_vars

\* C14 witness: (1, 0, 0) x (0, 1, 0) has returned (0, 0, 1).
UnitCrossReturned ==
    /\ last.op = "cross" /\ last.exc = ""
    /\ lists[vectors[last.self].comp] = <<One, Zero, Zero>>
    /\ lists[vectors[last.args[1].id].comp] = <<Zero, One, Zero>>
    /\ lists[vectors[last.ret.id].comp] = <<Zero, Zero, One>>

\* Every stored component of v is zero (so also with no component).
IsZeroVector(v) ==
    \A i \in 1..Len(lists[vectors[v].comp]) : lists[vectors[v].comp][i] = Zero

\* C15: normalize of a vector whose components are all zero, angle_between
\* with such a vector on either side and projection onto such a vector
\* raise ValueError with the zero-vector message (angle_between of operands
\* of different dimensions: with the message of the dot product) and return
\* nothing, as methods and as functions, vectors without components
\* included.
ZeroMagnitudeRaises ==
    [][/\ last'.op = "normalize" /\ IsZeroVector(Receiver(last')) =>
            /\ RaisedOnly("ValueError")
            /\ last'.msg = "Cannot normalize zero vector"
       /\ last'.op = "angle_between"
              /\ (IsZeroVector(Receiver(last')) \/ IsZeroVector(Operand(last').id)) =>
            /\ RaisedOnly("ValueError")
            /\ last'.msg =
                  IF vectors[Receiver(last')].dim = vectors[Operand(last').id].dim
                  THEN "Cannot calculate angle with zero vector"
                  ELSE "Dimension mismatch in dot product"
       /\ last'.op = "projection" /\ IsZeroVector(Operand(last').id) =>
            /\ RaisedOnly("ValueError")
            /\ last'.msg = "Cannot project onto zero vector"]_vars

\* C15 witness: the function angle_between has raised for a non-zero
\* vector and a zero vector, both of dimension 3.
AngleWithZeroVectorRaised ==
    /\ last.op = "angle_between" /\ last.self = 0
    /\ last.msg = "Cannot calculate angle with zero vector"
    /\ vectors[last.args[1].id].dim = 3 /\ vectors[last.args[2].id].dim = 3
    /\ ~IsZeroVector(last.args[1].id) /\ IsZeroVector(last.args[2].id)

\* a and b have one dimension and every float difference a_i - b_i is
\* below eps in absolute value.
WithinEps(a, b) ==
    /\ vectors[a].dim = vectors[b].dim
    /\ \A i \in 1..vectors[a].dim :
          Lt(FAbs(PySub(lists[vectors[a].comp][i], lists[vectors[b].comp][i])), Eps)

\* C16: a == b returns True exactly when a and b have one dimension and
\* |a_i - b_i| < eps for every i, and a != b returns the negation; a == a
\* is True and b == a returns what a == b returns.
EqualityWithinEps ==
    [][last'.op \in {"__eq__", "__ne__"} =>
          LET a == last'.self
              b == last'.args[1].id
          IN  /\ vectors' = vectors /\ lists' = lists
              /\ last'.exc = ""
              /\ last'.ret = PyBool(IF last'.op = "__eq__" THEN WithinEps(a, b)
                                    ELSE ~WithinEps(a, b))
              /\ __ne__(World, a, b).ret = PyBool(~__eq__(World, a, b).ret.b)
              /\ __eq__(World, a, a).ret = PyBool(TRUE)
              /\ __eq__(World, b, a).ret = __eq__(World, a, b).ret]_vars

\* C16 witness: == has returned False for two vectors that differ by
\* exactly eps in their last component alone.
DifferenceOfEpsUnequal ==
    /\ last.op = "__eq__" /\ last.exc = "" /\ last.ret = PyBool(FALSE)
    /\ vectors[last.self].dim = 2 /\ vectors[last.args[1].id].dim = 2
    /\ lists[vectors[last.self].comp][1] = lists[vectors[last.args[1].id].comp][1]
    /\ FAbs(PySub(lists[vectors[last.self].comp][2],
                  lists[vectors[last.args[1].id].comp][2])) = Eps

\* The outcome r is True.
IsTrue(r) == r.exc = "" /\ r.ret = PyBool(TRUE)

\* C17: a.lerp(b, t) raises the dimension mismatch error when the
\* dimensions differ and otherwise returns a new vector of that dimension
\* with the components a_i + (b_i - a_i) * min(max(t, 0), 1); the result
\* == a when t <= 0 and == b when t >= 1, and every component lies between
\* a_i and b_i.
LerpBetweenEndpoints ==
    [][last'.op = "lerp" =>
          LET a == last'.self
              b == last'.args[1].id
              t == NumOf(last'.args[2])
              tc == PyMax(Zero, PyMin(One, t))
              d == vectors[a].dim
              A == lists[vectors[a].comp]
              B == lists[vectors[b].comp]
              after == [lists |-> lists', vectors |-> vectors']
          IN  IF d # vectors[b].dim
              THEN RaisedOnly("ValueError") /\ last'.msg = "Dimension mismatch in lerp"
              ELSE /\ ReturnedNew(d, [i \in 1..d |->
                          PyAdd(A[i], PyMul(PySub(B[i], A[i]), tc))])
                   /\ Le(t, Zero) => IsTrue(__eq__(after, last'.ret.id, a))
                   /\ Le(One, t) => IsTrue(__eq__(after, last'.ret.id, b))
                   /\ \A i \in 1..d :
                         LET c == lists'[vectors'[last'.ret.id].comp][i]
                         IN  /\ Le(PyMin(A[i], B[i]), c)
                             /\ Le(c, PyMax(A[i], B[i]))]_vars

----------------------------------------------------------------------------
(* The caller of clamp: it builds vectors and clamps them between two      *)
(* bounds, which Python lets be ints as well as floats.                    *)

BoundArgs == ScalarArgs \cup {PyInt(NotFloat)}

NextClamp ==
    \/ \E args \in OperandArgs : Construct(args, OperandVars)
    \/ \E a \in DOMAIN vectors, x, y \in BoundArgs :
          Operate("clamp", a, <<x, y>>, clamp(World, a, x, y))

SpecClamp == InitOps /\ [][NextClamp]_vars

\* The component c clipped into [lo, hi]: lo if c < lo, hi if c > hi, c
\* otherwise.
Clipped(c, lo, hi) == IF Lt(c, lo) THEN lo ELSE IF Lt(hi, c) THEN hi ELSE c

\* C18: v.clamp(min, max) raises ValueError when min > max and leaves every
\* vector as it was; otherwise it returns a new vector of the dimension of
\* v whose component i is v_i clipped into [min, max], so that it lies in
\* [min, max], and clamping the result again returns the same components.
ClampClipsIntoRange ==
    [][last'.op = "clamp" =>
          LET v == last'.self
              lo == NumOf(last'.args[1])
              hi == NumOf(last'.args[2])
              d == vectors[v].dim
              A == lists[vectors[v].comp]
              after == [lists |-> lists', vectors |-> vectors']
          IN  IF Lt(hi, lo)
              THEN /\ RaisedOnly("ValueError")
                   /\ last'.msg = "min_val must be <= max_val"
              ELSE /\ last'.exc = ""
                   /\ last'.ret.t = "Vector"
                   /\ last'.ret.id \notin DOMAIN vectors
                   /\ vectors'[last'.ret.id].dim = d
                   /\ vectors'[v] = vectors[v]
                   /\ lists'[vectors'[v].comp] = A
                   /\ \A i \in 1..d :
                         LET c == lists'[vectors'[last'.ret.id].comp][i]
                         IN  /\ c = Clipped(A[i], lo, hi)
                             /\ Le(lo, c) /\ Le(c, hi)
                   /\ Returned(clamp(after, last'.ret.id, last'.args[1], last'.args[2]))
                         = lists'[vectors'[last'.ret.id].comp]]_vars

\* The components a vector of components old has after resize(n, fill).
Resized(old, n, fill) ==
    IF n <= Len(old) THEN SubSeq(old, 1, n)
    ELSE old \o [i \in 1..(n - Len(old)) |-> fill]

\* C19: resize(n, fill) with n >= 0 returns nothing, creates no vector and
\* leaves the other vectors as they were; the vector then has dimension n
\* and n components: its first n when it shrinks, its own followed by
\* n - (old dimension) times fill when it grows; nothing changes when n is
\* its dimension.
ResizeTruncatesOrPads ==
    [][(last'.op = "resize" /\ last'.args[1].n >= 0) =>
          LET v == last'.self
              n == last'.args[1].n
              fill == NumOf(last'.args[2])
              d == vectors[v].dim
              old == lists[vectors[v].comp]
              new == lists'[vectors'[v].comp]
          IN  /\ last'.exc = "" /\ last'.ret = NoneVal
              /\ DOMAIN vectors' = DOMAIN vectors
              /\ \A u \in DOMAIN vectors \ {v} :
                    /\ vectors'[u].dim = vectors[u].dim
                    /\ lists'[vectors'[u].comp] = lists[vectors[u].comp]
              /\ vectors'[v].dim = n
              /\ Len(new) = n
              /\ new = Resized(old, n, fill)
              /\ n > d => new = old \o [i \in 1..(n - d) |-> fill]
              /\ n = d => vectors' = vectors /\ lists' = lists]_vars

\* The same for the vectors that have as many components as their dimension.
ResizeOfSoundVector ==
    [][(/\ last'.op = "resize" /\ last'.args[1].n >= 0
        /\ vectors[last'.self].dim = Len(lists[vectors[last'.self].comp])) =>
          LET v == last'.self
              n == last'.args[1].n
              fill == NumOf(last'.args[2])
              d == vectors[v].dim
              old == lists[vectors[v].comp]
              new == lists'[vectors'[v].comp]
          IN  /\ last'.exc = "" /\ last'.ret = NoneVal
              /\ DOMAIN vectors' = DOMAIN vectors
              /\ vectors'[v].dim = n
              /\ Len(new) = n
              /\ new = Resized(old, n, fill)
              /\ n > d => new = old \o [i \in 1..(n - d) |-> fill]
              /\ n = d => vectors' = vectors /\ lists' = lists]_vars

----------------------------------------------------------------------------
(* The caller of the conversions: once it is done building and resizing a  *)
(* vector it builds a second one from the list the first one exports.      *)

\* w = Vector.from_list(v.to_list())
FromListOfToList(v) ==
    /\ Cardinality(DOMAIN vectors) <= Cardinality(VectorVars)
    /\ Call("from_list(to_list)", v, <<>>,
            Then(to_list(World, v), LAMBDA l : from_list(l.w, l.ret)))

\* w = Vector.from_list(lst)
FromList(h) ==
    /\ Cardinality(DOMAIN vectors) <= Cardinality(VectorVars)
    /\ Call("from_list", 0, <<[t |-> "list", h |-> h]>>,
            from_list(World, Resolve(<<[t |-> "list", h |-> h]>>)[1]))

\* The lists of numbers the caller builds vectors from: of 1 to MaxDim + 1
\* elements.
SequenceLiterals == {[i \in 1..n |-> Num(i)] : n \in 1..(MaxDim + 1)}

NextConvert ==
    \/ \E items \in ListLiterals \cup SequenceLiterals : MakeList(items)
    \/ \E h \in 1..Len(held) : FromList(h)
    \/ \E args \in CtorArgs : Construct(args, VectorVars)
    \/ \E v \in DOMAIN vectors, n \in DimArgs, fill \in FillArgs :
          Cardinality(DOMAIN vectors) <= Cardinality(VectorVars) /\ Resize(v, n, fill)
    \/ \E v \in DOMAIN vectors : FromListOfToList(v)

SpecConvert == Init /\ [][NextConvert]_vars

\* C20: Vector.from_list(v.to_list()) returns a new vector with the
\* dimension and the components of v, in their order, and leaves v as it
\* was.
RoundTripReproduces ==
    [][last'.op = "from_list(to_list)" =>
          LET v == last'.self
          IN  /\ last'.exc = ""
              /\ last'.ret.t = "Vector"
              /\ last'.ret.id \notin DOMAIN vectors
              /\ vectors'[v] = vectors[v]
              /\ lists'[vectors'[v].comp] = lists[vectors[v].comp]
              /\ vectors'[last'.ret.id].dim = vectors[v].dim
              /\ lists'[vectors'[last'.ret.id].comp] = lists[vectors[v].comp]]_vars

\* The same for the vectors that have as many components as their dimension,
\* every one of them a float.
RoundTripOfFloats ==
    [][(/\ last'.op = "from_list(to_list)"
        /\ vectors[last'.self].dim = Len(lists[vectors[last'.self].comp])
        /\ \A i \in 1..vectors[last'.self].dim :
              IsFloat(lists[vectors[last'.self].comp][i])) =>
          LET v == last'.self
          IN  /\ last'.exc = ""
              /\ last'.ret.t = "Vector"
              /\ last'.ret.id \notin DOMAIN vectors
              /\ vectors'[v] = vectors[v]
              /\ lists'[vectors'[v].comp] = lists[vectors[v].comp]
              /\ vectors'[last'.ret.id].dim = vectors[v].dim
              /\ lists'[vectors'[last'.ret.id].comp] = lists[vectors[v].comp]]_vars

\* C21: Vector.from_list(lst) returns a new vector with the numbers of lst
\* when lst has 2 or 3 of them, and raises ValueError and creates no vector
\* when it has another number of them (1 or 4, say).
FromListTakes2Or3 ==
    [][last'.op = "from_list" =>
          LET data == lists[held[last'.args[1].h]]
          IN  IF Len(data) \in {2, 3}
              THEN ReturnedNew(Len(data), [i \in 1..Len(data) |-> Float(data[i])])
              ELSE RaisedOnly("ValueError")]_vars

----------------------------------------------------------------------------
(* The caller of rotate: it builds a vector and an axis, the z axis among  *)
(* them, and turns the one about the other by quarter turns.               *)

RotatedArgs ==
    {<<PyInt(1), PyInt(0), PyInt(0)>>, <<PyInt(0), PyInt(0), PyInt(1)>>,
     <<PyInt(1), PyInt(2), PyInt(3)>>, <<PyInt(2)>>}

NextRotate ==
    \/ \E args \in RotatedArgs : Construct(args, OperandVars)
    \/ \E a, b \in DOMAIN vectors, q \in AngleArgs :
          Operate("rotate", 0, <<VecRef(a), VecRef(b), q>>, rotate(World, a, b, q))

SpecRotate == Init /\ [][NextRotate]_vars

\* C22: rotate(v, axis, angle) by a quarter turn (cos = 0, sin = 1) about
\* the axis (0, 0, 1) returns for every v = (x, y, z) the vector (-y, x, z),
\* so (0, 1, 0) for (1, 0, 0).
QuarterTurnAboutZ ==
    [][(/\ last'.op = "rotate"
        /\ last'.args[3].q = 1
        /\ vectors[last'.args[1].id].dim = 3
        /\ lists[vectors[last'.args[2].id].comp] = <<Zero, Zero, One>>) =>
          LET V == lists[vectors[last'.args[1].id].comp]
          IN  ReturnedNew(3, <<Negate(V[2]), V[1], V[3]>>)]_vars

----------------------------------------------------------------------------
(* The caller of the functions on lists of vectors: it builds one or two   *)
(* vectors, puts them into lists and keeps the list a function returns.    *)

OperateOnLists(op, args, r) ==
    /\ last.op = "Vector"
    /\ Cardinality(DOMAIN vectors) <= Cardinality(OperandVars)
    /\ Call(op, 0, args, r)

BatchFunction(l1, l2) ==
    \/ OperateOnLists("batch_add", <<VecList(l1), VecList(l2)>>, batch_add(World, l1, l2))
    \/ OperateOnLists("batch_dot_product", <<VecList(l1), VecList(l2)>>,
                      batch_dot_product(World, l1, l2))

AverageFunction(l1, ws) ==
    \/ OperateOnLists("centroid", <<VecList(l1)>>, centroid(World, l1))
    \/ OperateOnLists("weighted_average", <<VecList(l1), NumList(ws)>>,
                      weighted_average(World, l1, ws))

NextBatch ==
    \/ \E args \in OperandArgs : Construct(args, OperandVars)
    \/ \E l1, l2 \in VectorLists : BatchFunction(l1, l2)
    \/ \E l1 \in VectorLists, ws \in WeightLists : AverageFunction(l1, ws)

SpecBatch == InitOps /\ [][NextBatch]_vars

\* The vectors of the lists l1 and l2 pair up with equal dimensions.
PairsMatch(l1, l2) == \A i \in 1..Len(l1) : vectors[l1[i]].dim = vectors[l2[i]].dim

\* C23: batch_add and batch_dot_product raise ValueError when the lists
\* differ in length or the vectors of a pair differ in dimension, and leave
\* every vector as it was; otherwise they return a list as long as the
\* inputs whose element i is a new vector with the components
\* list1[i]_k + list2[i]_k, respectively the float sum of the products
\* list1[i]_k * list2[i]_k, and the vectors of the inputs keep their
\* dimension and components.
BatchPairsInOrder ==
    [][last'.op \in {"batch_add", "batch_dot_product"} =>
          LET l1 == last'.args[1].ids
              l2 == last'.args[2].ids
              n == Len(l1)
              A(i) == lists[vectors[l1[i]].comp]
              B(i) == lists[vectors[l2[i]].comp]
              d(i) == vectors[l1[i]].dim
          IN  IF Len(l1) # Len(l2)
              THEN /\ RaisedOnly("ValueError")
                   /\ last'.msg = "Vector lists must have the same length"
              ELSE IF ~PairsMatch(l1, l2) THEN RaisedOnly("ValueError")
              ELSE /\ last'.exc = ""
                   /\ \A v \in DOMAIN vectors :
                         /\ vectors'[v].dim = vectors[v].dim
                         /\ lists'[vectors'[v].comp] = lists[vectors[v].comp]
                   /\ IF last'.op = "batch_add"
                      THEN /\ last'.ret.t = "vectors"
                           /\ Len(last'.ret.ids) = n
                           /\ \A i \in 1..n :
                                 /\ last'.ret.ids[i] \notin DOMAIN vectors
                                 /\ vectors'[last'.ret.ids[i]].dim = d(i)
                                 /\ lists'[vectors'[last'.ret.ids[i]].comp]
                                       = [k \in 1..d(i) |-> PyAdd(A(i)[k], B(i)[k])]
                      ELSE /\ last'.ret.t = "floats"
                           /\ Len(last'.ret.vals) = n
                           /\ \A i \in 1..n :
                                 NumOf(last'.ret.vals[i])
                                    = FloatSum([k \in 1..d(i) |-> PyMul(A(i)[k], B(i)[k])],
                                               d(i))]_vars

\* C23 witness: batch_add has returned two different sums for two pairs of
\* vectors.
TwoDifferentPairsAdded ==
    /\ last.op = "batch_add" /\ last.exc = ""
    /\ Len(last.ret.ids) = 2
    /\ lists[vectors[last.ret.ids[1]].comp] # lists[vectors[last.ret.ids[2]].comp]

\* The vectors of the list l have one dimension.
OneDimension(l) == \A i, j \in 1..Len(l) : vectors[l[i]].dim = vectors[l[j]].dim

\* C24: centroid raises ValueError on an empty list and when the vectors
\* differ in dimension, and leaves every vector as it was; for vectors of
\* one dimension d, whatever d is, it returns a new vector of dimension d
\* whose component k is the sum of the components k divided by their
\* number.
CentroidIsMean ==
    [][last'.op = "centroid" =>
          LET l == last'.args[1].ids
              n == Len(l)
              d == vectors[l[1]].dim
              column(k) == [i \in 1..n |-> lists[vectors[l[i]].comp][k]]
          IN  IF n = 0
              THEN /\ RaisedOnly("ValueError")
                   /\ last'.msg = "Cannot calculate centroid of empty list"
              ELSE IF ~OneDimension(l) THEN RaisedOnly("ValueError")
              ELSE ReturnedNew(d, [k \in 1..d |-> PyDiv(FloatSum(column(k), n), Num(n))])]_vars

\* The same for vectors of dimension 3 alone.
CentroidIsMeanIn3D ==
    [][(/\ last'.op = "centroid"
        /\ \A i \in 1..Len(last'.args[1].ids) : vectors[last'.args[1].ids[i]].dim = 3) =>
          LET l == last'.args[1].ids
              n == Len(l)
              column(k) == [i \in 1..n |-> lists[vectors[l[i]].comp][k]]
          IN  IF n = 0
              THEN /\ RaisedOnly("ValueError")
                   /\ last'.msg = "Cannot calculate centroid of empty list"
              ELSE ReturnedNew(3, [k \in 1..3 |-> PyDiv(FloatSum(column(k), n), Num(n))])]_vars

\* w_1 + ... + w_n
RECURSIVE Total(_, _)
Total(ws, n) == IF n <= 0 THEN Zero ELSE PyAdd(Total(ws, n - 1), NumOf(ws[n]))

\* C25: weighted_average raises ValueError when the lists differ in length,
\* when they are empty and when the weights sum to 0, and leaves every
\* vector as it was; otherwise, for vectors of one dimension d, whatever d
\* is, it returns a new vector of dimension d whose component k is the sum
\* of the products v_i[k] * w_i divided by the sum of the weights.
WeightedAverageIsWeightedMean ==
    [][last'.op = "weighted_average" =>
          LET l == last'.args[1].ids
              ws == last'.args[2].nums
              n == Len(l)
              d == vectors[l[1]].dim
              products(k) == [i \in 1..n |-> PyMul(lists[vectors[l[i]].comp][k], NumOf(ws[i]))]
          IN  IF n # Len(ws)
              THEN /\ RaisedOnly("ValueError")
                   /\ last'.msg = "Vectors and weights must have the same length"
              ELSE IF n = 0
              THEN /\ RaisedOnly("ValueError")
                   /\ last'.msg = "Cannot calculate weighted average of empty list"
              ELSE IF Total(ws, n) = Zero
              THEN /\ RaisedOnly("ValueError")
                   /\ last'.msg = "Total weight cannot be zero"
              ELSE IF ~OneDimension(l) THEN RaisedOnly("ValueError")
              ELSE ReturnedNew(d, [k \in 1..d |->
                                      PyDiv(FloatSum(products(k), n), Total(ws, n))])]_vars

\* The same for vectors of dimension 3 alone.
WeightedAverageIn3D ==
    [][(/\ last'.op = "weighted_average"
        /\ \A i \in 1..Len(last'.args[1].ids) : vectors[last'.args[1].ids[i]].dim = 3) =>
          LET l == last'.args[1].ids
              ws == last'.args[2].nums
              n == Len(l)
              products(k) == [i \in 1..n |-> PyMul(lists[vectors[l[i]].comp][k], NumOf(ws[i]))]
          IN  IF n # Len(ws)
              THEN /\ RaisedOnly("ValueError")
                   /\ last'.msg = "Vectors and weights must have the same length"
              ELSE IF n = 0
              THEN /\ RaisedOnly("ValueError")
                   /\ last'.msg = "Cannot calculate weighted average of empty list"
              ELSE IF Total(ws, n) = Zero
              THEN /\ RaisedOnly("ValueError")
                   /\ last'.msg = "Total weight cannot be zero"
              ELSE ReturnedNew(3, [k \in 1..3 |->
                                      PyDiv(FloatSum(products(k), n), Total(ws, n))])]_vars

\* The outcome of element_wise_multiply / element_wise_divide on a and b
\* when a zero component of the divisor raises the exception zero.
ElementWiseOutcome(zero) ==
    LET a == last'.args[1].id
        b == last'.args[2].id
        d == vectors[a].dim
        A == lists[vectors[a].comp]
        B == lists[vectors[b].comp]
    IN  IF d # vectors[b].dim THEN RaisedOnly("ValueError")
        ELSE IF last'.op = "element_wise_divide" /\ \E i \in 1..d : B[i] = Zero
        THEN RaisedOnly(zero)
        ELSE ReturnedNew(d, [i \in 1..d |-> IF last'.op = "element_wise_multiply"
                                            THEN PyMul(A[i], B[i])
                                            ELSE PyDiv(A[i], B[i])])

\* C26: element_wise_multiply and element_wise_divide raise ValueError when
\* the dimensions differ and otherwise return a new vector of that dimension
\* with the components v1_i * v2_i, respectively v1_i / v2_i; with a zero
\* component in the divisor element_wise_divide returns no vector and raises
\* the exception that v1 / 0 raises.
ElementWiseDividesLikeScalar ==
    [][last'.op \in {"element_wise_multiply", "element_wise_divide"} =>
          ElementWiseOutcome(__truediv__(World, last'.args[1].id, PyInt(0)).exc)]_vars

\* The same with Python's own ZeroDivisionError for a zero component of the
\* divisor, for vectors of a dimension that is not negative.
ElementWiseRaisesZeroDivision ==
    [][(/\ last'.op \in {"element_wise_multiply", "element_wise_divide"}
        /\ vectors[last'.args[1].id].dim >= 0
        /\ vectors[last'.args[2].id].dim >= 0) =>
          ElementWiseOutcome("ZeroDivisionError")]_vars

\* What sum_elements, max_element, min_element and mean_element return for
\* the vector v, whose components are the first d items of A.
ReductionOutcome(d, A) ==
    IF d = 0
    THEN IF last'.op = "sum_elements"
         THEN last'.exc = "" /\ NumOf(last'.ret) = Zero
         ELSE last'.exc = "ValueError"
    ELSE /\ last'.exc = ""
         /\ IsNumber(last'.ret)
         /\ LET r == NumOf(last'.ret)
            IN  CASE last'.op = "sum_elements" -> r = FloatSum(A, d)
                  [] last'.op = "max_element" ->
                        /\ \E i \in 1..d : A[i] = r
                        /\ \A i \in 1..d : Le(A[i], r)
                  [] last'.op = "min_element" ->
                        /\ \E i \in 1..d : A[i] = r
                        /\ \A i \in 1..d : Le(r, A[i])
                  [] OTHER ->
                        /\ r = PyDiv(FloatSum(A, d), Num(d))
                        /\ \E i \in 1..d : Le(A[i], r)
                        /\ \E i \in 1..d : Le(r, A[i])

Reductions == {"sum_elements", "max_element", "min_element", "mean_element"}

\* C27: on a vector of dimension 0 max_element, min_element and
\* mean_element raise ValueError and sum_elements returns 0; on a vector of
\* dimension d >= 1 they return the float sum of its d components, the
\* largest, the smallest and the sum divided by d, which lies between the
\* smallest and the largest; none changes a vector.
ReductionsOverComponents ==
    [][(last'.op \in Reductions /\ last'.self = 0 /\ vectors[last'.args[1].id].dim >= 0) =>
          /\ vectors' = vectors /\ lists' = lists
          /\ ReductionOutcome(vectors[last'.args[1].id].dim,
                              lists[vectors[last'.args[1].id].comp])]_vars

\* The same for the vectors that have as many components as their dimension.
ReductionsOfSoundVector ==
    [][(/\ last'.op \in Reductions /\ last'.self = 0
        /\ vectors[last'.args[1].id].dim = Len(lists[vectors[last'.args[1].id].comp])) =>
          /\ vectors' = vectors /\ lists' = lists
          /\ ReductionOutcome(vectors[last'.args[1].id].dim,
                              lists[vectors[last'.args[1].id].comp])]_vars

----------------------------------------------------------------------------
(* The caller of the library functions that have a method counterpart: it  *)
(* builds two vectors and calls a function on them.                        *)

ForwardedArgs ==
    {<<>>, <<PyInt(0)>>, <<PyInt(1), PyInt(1)>>, <<PyInt(1), PyInt(0)>>,
     <<PyInt(1), PyInt(2), PyInt(3)>>}

NextForwarded ==
    \/ \E args \in ForwardedArgs : Construct(args, OperandVars)
    \/ \E a, b \in DOMAIN vectors : LibraryFunction(a, b)
    \/ \E a \in DOMAIN vectors : UnaryFunction(a)

SpecForwarded == Init /\ [][NextForwarded]_vars

\* The outcome of the method that the library function of the call c has as
\* its counterpart, on the arguments of c.
MethodOutcome(c) ==
    LET a == c.args[1].id
        b == c.args[2].id
    IN  CASE c.op = "add" -> __add__(World, a, b)
          [] c.op = "subtract" -> __sub__(World, a, b)
          [] c.op = "multiply" -> __mul__(World, a, c.args[2])
          [] c.op = "divide" -> __truediv__(World, a, c.args[2])
          [] c.op = "dot_product" -> dot(World, a, b)
          [] c.op = "cross_product" -> cross(World, a, b)
          [] c.op = "magnitude" -> magnitude(World, a)
          [] c.op = "normalize" -> normalize(World, a)
          [] c.op = "distance" -> distance(World, a, b)
          [] c.op = "angle_between" -> angle_between(World, a, b)
          [] c.op = "projection" -> projection(World, a, b)
          [] c.op = "reflection" -> reflection(World, a, b)

Forwarded ==
    {"add", "subtract", "multiply", "divide", "dot_product", "cross_product",
     "magnitude", "normalize", "distance", "angle_between", "projection", "reflection"}

\* The call has raised what the outcome r raises, or returned the number or
\* the dimension and components that r returns.
SameAsMethod(r) ==
    /\ last'.exc = r.exc
    /\ r.exc = "" =>
          IF r.ret.t = "Vector"
          THEN /\ last'.ret.t = "Vector"
               /\ vectors'[last'.ret.id].dim = r.w.vectors[r.ret.id].dim
               /\ lists'[vectors'[last'.ret.id].comp] = Returned(r)
          ELSE last'.ret = r.ret

\* C28: a call of a library function that has a method counterpart raises
\* the exception or returns the value that the method raises or returns on
\* the same arguments.
FunctionsForwardToMethods ==
    [][(last'.op \in Forwarded /\ last'.self = 0) => SameAsMethod(MethodOutcome(last'))]_vars

\* The same for the functions other than projection.
FunctionsButProjectionForward ==
    [][(last'.op \in Forwarded \ {"projection"} /\ last'.self = 0)
          => SameAsMethod(MethodOutcome(last'))]_vars

\* C29: for two vectors a and b of one dimension and of non-zero magnitude
\* a.cosine_similarity(b) returns the number dot(a, b) / (|a| * |b|), which
\* lies in [-1, 1] and is 1 when b has the components of a; it changes no
\* vector.
CosineSimilarityIsCosine ==
    [][(/\ last'.op = "cosine_similarity"
        /\ vectors[last'.self].dim = vectors[last'.args[1].id].dim
        /\ ~IsZeroVector(last'.self) /\ ~IsZeroVector(last'.args[1].id)) =>
          LET a == last'.self
              b == last'.args[1].id
              cosine == PyDiv(NumOf(dot(World, a, b).ret),
                              PyMul(magnitude(World, a).ret.v, magnitude(World, b).ret.v))
          IN  /\ vectors' = vectors /\ lists' = lists
              /\ last'.exc = ""
              /\ IsNumber(last'.ret)
              /\ NumOf(last'.ret) = cosine
              /\ Le(Negate(One), NumOf(last'.ret)) /\ Le(NumOf(last'.ret), One)
              /\ lists[vectors[a].comp] = lists[vectors[b].comp] => NumOf(last'.ret) = One]_vars

----------------------------------------------------------------------------
(* The caller of the accessors: it keeps the sequence an accessor hands    *)
(* out, changes it as Python lets a list be changed, and goes on setting   *)
(* components of the vector and resizing it.                               *)

\* lst.append(a)
list_append(w, id, a) == Ok([w EXCEPT !.lists[id] = Append(@, a)], NoneVal)

\* del lst[i]
list_delitem(w, id, i) ==
    LET pos == ListPos(Len(w.lists[id]), i)
    IN  IF pos = 0 THEN Raise(w, "IndexError", "list assignment index out of range")
        ELSE Ok([w EXCEPT !.lists[id] =
                    [k \in 1..(Len(@) - 1) |-> IF k < pos THEN @[k] ELSE @[k + 1]]],
                NoneVal)

\* lst = v.components, lst = v.to_list(): the caller keeps the list returned.
KeepList(op, v, r) ==
    /\ Len(held) < Cardinality(ListVars)
    /\ LET c == Collect(r.w, Append(held, r.ret.id), Kept(r))
       IN  /\ lists' = c.lists
           /\ vectors' = c.vectors
           /\ held' = c.held
    /\ last' = [op |-> op, self |-> v, args |-> <<>>,
                exc |-> "", msg |-> "", ret |-> [t |-> "list", h |-> Len(held) + 1]]

HandOut(v) ==
    \/ KeepList("components", v, components(World, v))
    \/ KeepList("to_list", v, to_list(World, v))
    \/ Call("to_tuple", v, <<>>, to_tuple(World, v))

\* The changes the caller makes to the list it keeps; it appends while the
\* list has at most MaxDim items.
ChangeList(h, x) ==
    \/ /\ Len(lists[held[h]]) <= MaxDim
       /\ Call("append", 0, <<[t |-> "list", h |-> h], x>>,
               list_append(World, held[h], NumOf(x)))
    \/ Call("del", 0, <<[t |-> "list", h |-> h], PyInt(0)>>,
            list_delitem(World, held[h], 0))
    \/ Call("list[0]=", 0, <<[t |-> "list", h |-> h], x>>,
            list_setitem(World, held[h], 0, NumOf(x)))

HandedOutArgs == {<<PyInt(0)>>, <<PyInt(2)>>, <<PyInt(1), PyInt(2)>>}

NextHandOut ==
    \/ \E args \in HandedOutArgs : Construct(args, VectorVars)
    \/ \E v \in DOMAIN vectors : HandOut(v)
    \/ \E h \in 1..Len(held) : ChangeList(h, PyInt(2))
    \/ \E v \in DOMAIN vectors, i \in 0..1 : SetItem(v, i, PyInt(2))
    \/ \E v \in DOMAIN vectors, n \in {0, 1, MaxDim} : Resize(v, n, PyFloat(Zero))

SpecHandOut == Init /\ [][NextHandOut]_vars

\* C30: a change the caller makes to a list it was handed out leaves the
\* dimension and the components of every vector as they were, and an index
\* assignment or a resize of a vector leaves every list the caller was
\* handed out as it was.
StorageIsOwn ==
    [][/\ (last'.op \in {"append", "del", "list[0]="} =>
             \A v \in DOMAIN vectors :
                /\ vectors'[v].dim = vectors[v].dim
                /\ lists'[vectors'[v].comp] = lists[vectors[v].comp])
       /\ (last'.op \in {"__setitem__", "resize"} =>
             \A h \in 1..Len(held) : lists'[held'[h]] = lists[held[h]])]_vars

\* The same when the list was handed out by to_list: the caller holds no
\* list that is the component list of a vector.
StorageIsOwnAfterToList ==
    [][(\A h \in 1..Len(held), v \in DOMAIN vectors : held[h] # vectors[v].comp) =>
          /\ (last'.op \in {"append", "del", "list[0]="} =>
                \A v \in DOMAIN vectors :
                   /\ vectors'[v].dim = vectors[v].dim
                   /\ lists'[vectors'[v].comp] = lists[vectors[v].comp])
          /\ (last'.op \in {"__setitem__", "resize"} =>
                \A h \in 1..Len(held) : lists'[held'[h]] = lists[held[h]])]_vars

\* to_list hands out a list that is no vector's component list.
ToListCopies ==
    [][last'.op = "to_list" =>
          \A v \in DOMAIN vectors' : held'[last'.ret.h] # vectors'[v].comp]_vars

====
